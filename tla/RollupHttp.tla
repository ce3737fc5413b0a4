----------------------------- MODULE RollupHttp -----------------------------
(***************************************************************************)
(* rollup-http-server: HTTP handlers on several worker threads, and the    *)
(* task that watches the dapp, share one cmt_rollup_t behind a mutex       *)
(* (rollup-http/rollup-http-server/src).  The machine they run in is that  *)
(* of Rollup.tla: when it stops, every thread stops, and when the host     *)
(* puts it back, handlers, locks and the dapp go back with it.             *)
(*                                                                         *)
(* A mutex of async_mutex is the set of those who hold it.  A free one is  *)
(* taken by any of those who wait, in no order, and is released when the   *)
(* guard is dropped.                                                       *)
(***************************************************************************)
EXTENDS Rollup

CONSTANTS
  Conn,              \* connections to the server
  Worker, WorkerOf,  \* the actix workers, and which one serves a connection
  Posts,             \* what clients post: a set of [path, accept, payload]
  DappProcess        \* the task that runs dapp_process::run

ASSUME WorkerAssumption == WorkerOf \in [Conn -> Worker]
ASSUME DappAssumption == DappProcess \notin Conn

Path == OutputKind \cup {"report", "gio", "exception", "finish"}
ASSUME PostsAssumption == Posts \subseteq [path : Path, accept : BOOLEAN, payload : Payload]

VARIABLES
  handler,           \* the handler of each connection, where it is suspended
  reply,             \* the last response on each connection
  context,           \* Mutex<Context>, one for each worker: create_server
                     \* makes it in the closure that every worker runs
  rollup_fd,         \* Arc<Mutex<RollupFd>>, one for all
  dapp,              \* the dapp, as seen by dapp_process::run
  saved              \* these variables, in the machine the host saved

server == <<handler, reply, context, rollup_fd, dapp>>
varsHttp == <<vars, server, saved>>

NoPost == [path |-> "none"]
Idle == [at |-> "idle", post |-> NoPost, next |-> "none", sent |-> NoMessage]

\* Responses: those with a body that matters, and all others.
Ok(payload, sent) == [status |-> 200, body |-> payload, sent |-> sent]
\* Mutant of Created: the response holds the number of outputs.
Created_count(e) == [status |-> 201, body |-> [e EXCEPT !.index = @ + 1]]
\* Mutant of Created: the server accepts a post whose output it has not made.
Accepted(e) == [status |-> 202, body |-> e]

Created(e) == [status |-> 201, body |-> e]
NoReply == [status |-> 0]

InitHttp ==
  /\ Init
  /\ handler = [c \in Conn |-> Idle]
  /\ reply = [c \in Conn |-> NoReply]
  /\ context = [w \in Worker |-> {}]
  /\ rollup_fd = {}
  /\ dapp = "running"
  /\ saved = NoSnapshot

At(c, place) == handler[c].at = place
Goto(c, place) == handler' = [handler EXCEPT ![c].at = place]

\* The response is sent and the guards are dropped.
Respond(c, response) ==
  /\ handler' = [handler EXCEPT ![c] = Idle]
  /\ reply' = [reply EXCEPT ![c] = response]
  /\ rollup_fd' = rollup_fd \ {c}
  /\ context' = [context EXCEPT ![WorkerOf[c]] = @ \ {c}]
  /\ UNCHANGED dapp

-----------------------------------------------------------------------------
(* What every handler does before its call.                                *)

\* A request arrives.
receive(c, post) ==
  /\ Running /\ At(c, "idle")
  /\ handler' = [handler EXCEPT ![c] = [Idle EXCEPT !.at = "wait_context", !.post = post]]
  /\ reply' = [reply EXCEPT ![c] = NoReply]
  /\ UNCHANGED <<vars, context, rollup_fd, dapp, saved>>

\* An address or a status is refused before any lock is asked for.
refuse(c) ==
  /\ Running /\ At(c, "idle")
  /\ reply' = [reply EXCEPT ![c] = NoReply]
  /\ UNCHANGED <<vars, handler, context, rollup_fd, dapp, saved>>

\* data.lock().await returns; now context.rollup_fd.lock().await.
lock_context(c) ==
  /\ Running /\ At(c, "wait_context") /\ context[WorkerOf[c]] = {}
  /\ Goto(c, "wait_fd")
  /\ context' = [context EXCEPT ![WorkerOf[c]] = {c}]
  /\ UNCHANGED <<vars, reply, rollup_fd, dapp, saved>>

\* Mutant of disconnect: the guard of a dropped handler is not dropped.
disconnect_keeping_guard(c) ==
  /\ Running /\ (At(c, "wait_context") \/ At(c, "wait_fd"))
  /\ handler' = [handler EXCEPT ![c] = Idle]
  /\ UNCHANGED <<vars, reply, context, rollup_fd, dapp, saved>>

\* The client goes away and the suspended handler is dropped with its guard.
disconnect(c) ==
  /\ Running /\ (At(c, "wait_context") \/ At(c, "wait_fd"))
  /\ handler' = [handler EXCEPT ![c] = Idle]
  /\ context' = [context EXCEPT ![WorkerOf[c]] = @ \ {c}]
  /\ UNCHANGED <<vars, reply, rollup_fd, dapp, saved>>

\* Mutant of Locked: the library is called without the lock.
Locked_without_lock(c, path) ==
  /\ Running /\ At(c, "wait_fd")
  /\ handler[c].post.path = path

\* The lock is there, and the call is made without another await.
Locked(c, path) ==
  /\ Running /\ At(c, "wait_fd") /\ rollup_fd = {}
  /\ handler[c].post.path = path

-----------------------------------------------------------------------------
(* One handler for each path, from the lock to the response.               *)

\* The payload does not decode: an error, or a panic that closes the
\* connection and drops the guards.  The library is not called.
bad_payload(c) ==
  /\ Running /\ At(c, "wait_fd") /\ rollup_fd = {}
  /\ handler[c].post.path # "finish"
  /\ Respond(c, NoReply)
  /\ UNCHANGED <<vars, saved>>

post_output(c) ==
  \E kind \in OutputKind, rc \in ReturnCode :
    /\ Locked(c, kind)
    /\ emit_output([kind |-> kind, payload |-> handler[c].post.payload], rc)
    /\ Respond(c, IF rc = "OK" THEN Created(CHOOSE e \in issued' \ issued : TRUE)
                              ELSE NoReply)
    /\ UNCHANGED saved

post_report(c) ==
  /\ Locked(c, "report")
  /\ \E rc \in ReturnCode : cmt_rollup_emit_report(handler[c].post.payload, rc)
  /\ Respond(c, NoReply)
  /\ UNCHANGED saved

\* A call that stops the machine leaves the handler in it, with the locks.
StaysOrResponds(c, rc) ==
  IF rc = "stopped"
    THEN /\ Goto(c, "calling")
         /\ rollup_fd' = rollup_fd \cup {c}
         /\ UNCHANGED <<reply, context, dapp>>
    ELSE Respond(c, NoReply)

post_gio(c) ==
  /\ Locked(c, "gio")
  /\ \E rc \in ReturnCode : /\ cmt_gio_request(handler[c].post.payload, rc)
                            /\ StaysOrResponds(c, rc)
  /\ UNCHANGED saved

post_exception(c) ==
  /\ Locked(c, "exception")
  /\ \E rc \in ReturnCode : /\ cmt_rollup_emit_exception(handler[c].post.payload, rc)
                            /\ StaysOrResponds(c, rc)
  /\ UNCHANGED saved

\* perform_rollup_finish_request.  When the host saves the machine, this
\* handler is in the call.
post_finish(c) ==
  /\ Locked(c, "finish")
  /\ \/ /\ handler[c].post.accept /\ finish_accept
        /\ StaysOrResponds(c, "stopped")
        /\ saved' = [taken |-> TRUE, handler |-> handler', reply |-> reply,
                     context |-> context, rollup_fd |-> rollup_fd', dapp |-> dapp]
     \/ /\ handler[c].post.accept /\ finish_accept_inspect
        /\ StaysOrResponds(c, "stopped") /\ UNCHANGED saved
     \/ /\ handler[c].post.accept /\ finish_accept_fails
        /\ StaysOrResponds(c, "EIO") /\ UNCHANGED saved
     \/ /\ ~handler[c].post.accept
        /\ \E rc \in ReturnCode : finish_reject(rc) /\ StaysOrResponds(c, rc)
        /\ UNCHANGED saved

\* handle_rollup_requests reads the request that the finish returned with,
\* under the same lock, and the response carries it.
read_and_respond(c) ==
  /\ Running /\ At(c, "returned")
  /\ LET r == read_request(handler[c].next)
     IN  Respond(c, IF r.rc = "OK" THEN Ok(r.payload, handler[c].sent) ELSE NoReply)
  /\ UNCHANGED <<vars, saved>>

-----------------------------------------------------------------------------
(* dapp_process::run                                                       *)

\* The dapp exits, or never started.
dapp_exits ==
  /\ Running /\ dapp = "running"
  /\ dapp' = "exited"
  /\ UNCHANGED <<vars, handler, reply, context, rollup_fd, saved>>

\* Mutant of throw_exception: the exception is thrown without the lock.
throw_exception_without_lock ==
  /\ Running /\ dapp = "exited"
  /\ \E p \in Payload : cmt_rollup_emit_exception(p, "stopped")
  /\ dapp' = "throwing"
  /\ UNCHANGED <<handler, reply, context, rollup_fd, saved>>

Throw ==
  \E p \in Payload, rc \in ReturnCode :
    /\ cmt_rollup_emit_exception(p, rc)
    /\ IF rc = "stopped"
         THEN dapp' = "throwing" /\ rollup_fd' = rollup_fd \cup {DappProcess}
         ELSE dapp' = "abandoned" /\ UNCHANGED rollup_fd

\* Mutant of throw_exception: the task gives way to any request.
throw_exception_when_idle ==
  /\ Running /\ dapp = "exited" /\ \A c \in Conn : At(c, "idle")
  /\ Throw
  /\ UNCHANGED <<handler, reply, context, saved>>

\* Mutant of throw_exception: an error returns with the lock held.
throw_exception_keeping_lock ==
  /\ Running /\ dapp = "exited" /\ rollup_fd = {}
  /\ \E p \in Payload, rc \in ReturnCode :
       /\ cmt_rollup_emit_exception(p, rc)
       /\ dapp' = IF rc = "stopped" THEN "throwing" ELSE "abandoned"
  /\ rollup_fd' = {DappProcess}
  /\ UNCHANGED <<handler, reply, context, saved>>

\* The task takes the device and throws.  An error is logged, and the server
\* goes on without a dapp.
throw_exception ==
  /\ Running /\ dapp = "exited" /\ rollup_fd = {}
  /\ Throw
  /\ UNCHANGED <<handler, reply, context, saved>>

-----------------------------------------------------------------------------
(* The host resumes the machine, and whoever was in the call goes on.      *)

\* The calling handler has the type of the next request in its own variable.
resume_finish(req) ==
  /\ finish_returns(req)
  /\ \E c \in Conn :
       /\ At(c, "calling")
       /\ handler' = [handler EXCEPT ![c] = [at |-> "returned", post |-> handler[c].post,
                                             next |-> req.type, sent |-> req]]
  /\ UNCHANGED <<reply, context, rollup_fd, dapp, saved>>

resume_gio(p) ==
  /\ gio_returns(p)
  /\ \E c \in Conn : At(c, "calling") /\ Respond(c, NoReply)
  /\ UNCHANGED saved

put_back ==
  /\ host_revert
  /\ handler' = saved.handler
  /\ reply' = saved.reply
  /\ context' = saved.context
  /\ rollup_fd' = saved.rollup_fd
  /\ dapp' = saved.dapp
  /\ UNCHANGED saved

call_rollup(c) ==
  \/ bad_payload(c) \/ post_output(c) \/ post_report(c)
  \/ post_gio(c) \/ post_exception(c) \/ post_finish(c)

NextHttp ==
  \/ \E c \in Conn : \/ \E post \in Posts : receive(c, post)
                     \/ refuse(c) \/ lock_context(c) \/ disconnect(c)
                     \/ call_rollup(c) \/ read_and_respond(c)
  \/ dapp_exits \/ throw_exception
  \/ \E req \in Request : resume_finish(req)
  \/ \E p \in Payload : resume_gio(p)
  \/ put_back
  \/ host_gives_up /\ UNCHANGED <<server, saved>>

SpecHttp == InitHttp /\ [][NextHttp]_varsHttp

(***************************************************************************)
(* Threads that can run are scheduled: strong fairness, because each stop  *)
(* of the machine disables every step, and a thread does not lose its turn *)
(* by it; and because async_mutex gives a lock to a waiter that it has     *)
(* starved, however many others ask for it.  The host answers, and undoes  *)
(* what was rejected; whether it goes on after an exception is left open.  *)
(* Clients and the dapp owe nothing.                                       *)
(***************************************************************************)
handler_steps(c) == lock_context(c) \/ call_rollup(c) \/ read_and_respond(c)

host_answers ==
  \/ \E req \in Request : resume_finish(req)
  \/ \E p \in Payload : resume_gio(p)
  \/ yielded # "tx_exception" /\ put_back

Fairness ==
  /\ \A c \in Conn : SF_varsHttp(handler_steps(c))
  /\ SF_varsHttp(throw_exception)
  /\ WF_varsHttp(host_answers)

FairSpecHttp == SpecHttp /\ Fairness

-----------------------------------------------------------------------------
(* Correctness.                                                            *)

Place == {"idle", "wait_context", "wait_fd", "calling", "returned"}
Process == Conn \cup {DappProcess}

TypeOKHttp ==
  /\ TypeOK
  /\ \A c \in Conn : /\ handler[c].at \in Place
                      /\ handler[c].post \in Posts \cup {NoPost}
                      /\ handler[c].next \in RequestType \cup {"none"}
                      /\ reply[c].status \in {0, 200, 201}
  /\ context \in [Worker -> SUBSET Conn]
  /\ rollup_fd \in SUBSET Process
  /\ dapp \in {"running", "exited", "throwing", "abandoned"}

\* Those who hold a mutex are those whose handler is there to release it, and
\* they are one at most: through errors, panics, dropped clients and machines
\* put back, no guard is lost or doubled (http_service.rs, dapp_process.rs:42).
NoLostGuard ==
  /\ rollup_fd = {c \in Conn : handler[c].at \in {"calling", "returned"}}
                    \cup (IF dapp = "throwing" THEN {DappProcess} ELSE {})
  /\ \A w \in Worker : context[w] =
       {c \in Conn : WorkerOf[c] = w /\ handler[c].at \in {"wait_fd", "calling", "returned"}}
  /\ \A p, q \in rollup_fd : p = q
  /\ \A w \in Worker : \A c, d \in context[w] : c = d

\* A machine stopped in a call has exactly one thread in a call, the holder of
\* the device, and it is the one the host's answer is for; also after the host
\* has put an older machine back (http_service.rs:277, io.h:78-88).
StoppedInOwnersCall ==
  LET callers == {c \in Conn : At(c, "calling")}
                   \cup (IF dapp = "throwing" THEN {DappProcess} ELSE {})
  IN  IF Running THEN callers = {}
      ELSE \E p \in Process :
             /\ callers = {p} /\ rollup_fd = {p}
             /\ yielded \in {"rx_accepted", "rx_rejected", "inspect_dropped"} =>
                  p \in Conn /\ handler[p].post.path = "finish"
             /\ yielded = "gio" => p \in Conn /\ handler[p].post.path = "gio"

\* The response to a finish carries the request that this very finish waited
\* for, whole, whatever other clients do meanwhile (http_service.rs:277-325).
FinishRepliesWithItsRequest ==
  \A c \in Conn : reply[c].status = 200 => reply[c].body = Whole(reply[c].sent).payload

\* The index in a 201 response is the position at the host of the output that
\* was posted, and stays so while the client remembers the response.
IndexReplyNamesOutput ==
  \A c \in Conn : reply[c].status = 201 =>
    /\ reply[c].body.index < Len(outputs)
    /\ outputs[reply[c].body.index + 1] = reply[c].body.output

\* Every request is answered or dropped by its client, unless the machine it
\* was made in is thrown away: no client starves, no two wait on each other.
Served ==
  \A c \in Conn : ~At(c, "idle") ~> (At(c, "idle") \/ yielded \in Discarded)

\* "Execute the dapp command and throw a rollup exception if it fails or
\* exits" (dapp_process.rs:24): the exception is raised, or refused by the
\* driver, though handlers keep asking for the device; or the exit is undone.
DappExitRaisesException ==
  (dapp = "exited") ~> (dapp \in {"throwing", "abandoned"} \/ yielded \in Discarded)
=============================================================================

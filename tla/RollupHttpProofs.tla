--------------------------- MODULE RollupHttpProofs ---------------------------
(***************************************************************************)
(* Theorems of RollupHttp.tla, for any number of connections and workers,  *)
(* any posts, and the constants of Rollup.tla.                             *)
(***************************************************************************)
EXTENDS RollupHttp, RollupProofs

(* The inductive invariant.  Its parts are about a server h, r, ctx, fd, d *)
(* (handlers, replies, both mutexes, dapp), which is the one that runs or  *)
(* the one in the saved machine.                                           *)

Handler == [at : Place, post : Posts \cup {NoPost},
            next : RequestType \cup {"none"}, sent : Request \cup {NoMessage}]

Typed(h, r, ctx, fd, d) ==
  /\ h \in [Conn -> Handler]
  /\ r = [c \in Conn |-> r[c]]
  /\ ctx \in [Worker -> SUBSET Conn]
  /\ fd \in SUBSET Process
  /\ d \in {"running", "exited", "throwing", "abandoned"}

\* Whose stage says that it holds a mutex holds it, and nobody else does.
DeviceGuarded(h, fd, d) ==
  /\ \A c \in Conn : c \in fd <=> h[c].at \in {"calling", "returned"}
  /\ DappProcess \in fd <=> d = "throwing"
  /\ \A p, q \in fd : p = q

ContextGuarded(h, ctx) ==
  /\ \A w \in Worker, c \in Conn :
       c \in ctx[w] <=> WorkerOf[c] = w /\ h[c].at \in {"wait_fd", "calling", "returned"}
  /\ \A w \in Worker : \A c, e \in ctx[w] : c = e

InCall(h, d, p) == \/ p \in Conn /\ h[p].at = "calling"
                   \/ p = DappProcess /\ d = "throwing"

\* Somebody is in a call exactly if the machine is stopped, in that call.
Stopped(h, d, y) ==
  IF y = "no" THEN \A p \in Process : ~InCall(h, d, p)
  ELSE \E p \in Process :
         /\ InCall(h, d, p)
         /\ y \in {"rx_accepted", "rx_rejected", "inspect_dropped"} =>
              p \in Conn /\ h[p].post.path = "finish"
         /\ y = "gio" => p \in Conn /\ h[p].post.path = "gio"

Replied(response, indices) ==
  /\ response.status \in {0, 200, 201}
  /\ response.status = 201 => response.body \in indices
  /\ response.status = 200 => response.body = Whole(response.sent).payload

RepliesTrue(r, indices) == \A c \in Conn : Replied(r[c], indices)

ServerInv(h, r, ctx, fd, d, y, indices) ==
  /\ Typed(h, r, ctx, fd, d)
  /\ DeviceGuarded(h, fd, d)
  /\ ContextGuarded(h, ctx)
  /\ Stopped(h, d, y)
  /\ RepliesTrue(r, indices)

Serves == ServerInv(handler, reply, context, rollup_fd, dapp, yielded, issued)

\* The machine the host has saved has a server in its finish.
SavedServes ==
  snapshot.taken =>
    ServerInv(saved.handler, saved.reply, saved.context, saved.rollup_fd, saved.dapp,
              "rx_accepted", snapshot.issued)

\* Between the return of a finish and the reading of its request, rx has that
\* request.
ReturnedRequestInRx ==
  \A c \in Conn : handler[c].at = "returned" =>
    /\ rx = handler[c].sent /\ rx \in Request
    /\ handler[c].next = rx.type
    /\ fromhost_data = MessageLength(rx)

\* The server never resets the tree.
NeverReset == mark = 0 /\ (snapshot.taken => snapshot.mark = 0)

ServerPart == Serves /\ SavedServes /\ ReturnedRequestInRx /\ NeverReset

HttpInv == IInv /\ ServerPart

-----------------------------------------------------------------------------
(* Lemmas on single moves.                                                 *)

\* A handler that asks for a path has a post of a client.
LEMMA PostOfPath ==
  ASSUME Serves, NEW c \in Conn, handler[c].post.path # "none"
  PROVE  handler[c].post \in Posts /\ handler[c].post.payload \in Payload
         /\ handler[c].post.accept \in BOOLEAN
<1>1. handler[c] \in Handler
  BY DEF Serves, ServerInv, Typed
<1>2. handler[c].post \in Posts \cup {NoPost}
  BY <1>1 DEF Handler
<1>3. handler[c].post # NoPost
  BY DEF NoPost
<1>. QED
  BY <1>2, <1>3, PostsAssumption

\* An idle handler is a handler.
LEMMA IdleIsHandler == Idle \in Handler
BY DEF Idle, Handler, Place

\* Who is in a call holds the device, and everybody who holds it is the same.
LEMMA CallerHolds ==
  ASSUME Serves, NEW p \in Process, InCall(handler, dapp, p)
  PROVE  p \in rollup_fd /\ \A q \in rollup_fd : q = p
BY DEF Serves, ServerInv, DeviceGuarded, InCall

\* Sending a response and dropping the guards: of a handler in a machine that
\* runs, or of the one whose call has returned.
LEMMA RespondKeeps ==
  ASSUME Serves, NEW c \in Conn, NEW response, Respond(c, response),
         Replied(response, issued'), issued \subseteq issued', yielded' = "no",
         yielded = "no" \/ handler[c].at = "calling"
  PROVE  Serves'
<1>1. /\ handler' = [handler EXCEPT ![c] = Idle]
      /\ reply' = [reply EXCEPT ![c] = response]
      /\ rollup_fd' = rollup_fd \ {c}
      /\ context' = [context EXCEPT ![WorkerOf[c]] = @ \ {c}]
      /\ dapp' = dapp
  BY DEF Respond
<1>2. /\ Typed(handler, reply, context, rollup_fd, dapp)
      /\ DeviceGuarded(handler, rollup_fd, dapp)
      /\ ContextGuarded(handler, context)
      /\ Stopped(handler, dapp, yielded)
      /\ RepliesTrue(reply, issued)
  BY DEF Serves, ServerInv
<1>3. WorkerOf[c] \in Worker
  BY WorkerAssumption
<1>4. /\ handler'[c].at = "idle"
      /\ \A e \in Conn : e # c => handler'[e] = handler[e]
  BY <1>1, <1>2 DEF Typed, Idle
<1>5. Typed(handler', reply', context', rollup_fd', dapp')
  BY <1>1, <1>2, <1>3, IdleIsHandler DEF Typed
<1>6. DeviceGuarded(handler', rollup_fd', dapp')
  BY <1>1, <1>2, <1>4, DappAssumption DEF DeviceGuarded
<1>7. ContextGuarded(handler', context')
  <2>1. \A w \in Worker : context'[w] = IF w = WorkerOf[c] THEN context[w] \ {c} ELSE context[w]
    BY <1>1, <1>2 DEF Typed
  <2>2. ASSUME NEW w \in Worker, NEW e \in Conn
        PROVE  e \in context'[w] <=>
                 WorkerOf[e] = w /\ handler'[e].at \in {"wait_fd", "calling", "returned"}
    <3>0. e \in context[w] <=>
            WorkerOf[e] = w /\ handler[e].at \in {"wait_fd", "calling", "returned"}
      BY <1>2 DEF ContextGuarded
    <3>1. CASE e = c
      BY <1>4, <2>1, <3>0, <3>1
    <3>2. CASE e # c
      BY <1>4, <2>1, <3>0, <3>2
    <3>. QED
      BY <3>1, <3>2
  <2>3. ASSUME NEW w \in Worker PROVE context'[w] \subseteq context[w]
    BY <2>1
  <2>. QED
    BY <1>2, <2>2, <2>3 DEF ContextGuarded
<1>8. Stopped(handler', dapp', yielded')
  <2>1. SUFFICES ASSUME NEW p \in Process, InCall(handler', dapp', p) PROVE FALSE
    BY DEF Stopped
  <2>2. p # c
    BY <1>4, <2>1, DappAssumption DEF InCall
  <2>3. InCall(handler, dapp, p)
    BY <1>1, <1>4, <2>1, <2>2 DEF InCall
  <2>4. CASE yielded = "no"
    BY <1>2, <2>3, <2>4 DEF Stopped
  <2>5. CASE handler[c].at = "calling"
    <3>1. InCall(handler, dapp, c) /\ c \in Process
      BY <2>5 DEF InCall, Process
    <3>. QED
      BY <2>2, <2>3, <3>1, CallerHolds
  <2>. QED
    BY <2>4, <2>5
<1>9. RepliesTrue(reply', issued')
  <2>1. \A e \in Conn : reply'[e] = IF e = c THEN response ELSE reply[e]
    BY <1>1, <1>2 DEF Typed
  <2>. QED
    BY <1>2, <2>1 DEF RepliesTrue, Replied
<1>. QED
  BY <1>5, <1>6, <1>7, <1>8, <1>9 DEF Serves, ServerInv

\* A handler that has the device makes a call that stops the machine.
LEMMA StayKeeps ==
  ASSUME Serves, NEW c \in Conn, handler[c].at = "wait_fd", rollup_fd = {},
         StaysOrResponds(c, "stopped"), issued' = issued, yielded' # "no",
         yielded' \in {"rx_accepted", "rx_rejected", "inspect_dropped"}
           => handler[c].post.path = "finish",
         yielded' = "gio" => handler[c].post.path = "gio"
  PROVE  Serves'
<1>1. /\ handler' = [handler EXCEPT ![c].at = "calling"]
      /\ rollup_fd' = {c}
      /\ UNCHANGED <<reply, context, dapp>>
  BY DEF StaysOrResponds, Goto
<1>2. /\ Typed(handler, reply, context, rollup_fd, dapp)
      /\ DeviceGuarded(handler, rollup_fd, dapp)
      /\ ContextGuarded(handler, context)
      /\ RepliesTrue(reply, issued)
  BY DEF Serves, ServerInv
<1>3. /\ handler'[c] = [handler[c] EXCEPT !.at = "calling"]
      /\ \A e \in Conn : e # c => handler'[e] = handler[e]
  BY <1>1, <1>2 DEF Typed
<1>4. handler[c] \in Handler
  BY <1>2 DEF Typed
<1>5. handler'[c].at = "calling" /\ handler'[c].post = handler[c].post /\ handler'[c] \in Handler
  BY <1>3, <1>4 DEF Handler, Place
<1>6. Typed(handler', reply', context', rollup_fd', dapp')
  BY <1>1, <1>2, <1>5 DEF Typed, Process
<1>7. DeviceGuarded(handler', rollup_fd', dapp')
  BY <1>1, <1>2, <1>3, <1>5, DappAssumption DEF DeviceGuarded
<1>8. ContextGuarded(handler', context')
  BY <1>1, <1>2, <1>3, <1>5 DEF ContextGuarded
<1>9. Stopped(handler', dapp', yielded')
  BY <1>5 DEF Stopped, InCall, Process
<1>10. RepliesTrue(reply', issued')
  BY <1>1, <1>2
<1>. QED
  BY <1>6, <1>7, <1>8, <1>9, <1>10 DEF Serves, ServerInv

\* A change of one handler between places that hold neither of the mutexes
\* otherwise than before; its context goes with it.
LEMMA MoveKeeps ==
  ASSUME Serves, NEW c \in Conn, NEW entry \in Handler,
         handler' = [handler EXCEPT ![c] = entry],
         handler[c].at \in {"idle", "wait_context", "wait_fd"},
         entry.at \in {"idle", "wait_context", "wait_fd"},
         ContextGuarded(handler', context'), context' \in [Worker -> SUBSET Conn],
         reply' = reply \/ reply' = [reply EXCEPT ![c] = NoReply],
         UNCHANGED <<rollup_fd, dapp, yielded, issued>>, yielded = "no"
  PROVE  Serves'
<1>2. /\ Typed(handler, reply, context, rollup_fd, dapp)
      /\ DeviceGuarded(handler, rollup_fd, dapp)
      /\ Stopped(handler, dapp, yielded)
      /\ RepliesTrue(reply, issued)
  BY DEF Serves, ServerInv
<1>3. /\ handler'[c] = entry
      /\ \A e \in Conn : e # c => handler'[e] = handler[e]
  BY <1>2 DEF Typed
<1>4. Typed(handler', reply', context', rollup_fd', dapp')
  BY <1>2 DEF Typed
<1>5. DeviceGuarded(handler', rollup_fd', dapp')
  BY <1>2, <1>3 DEF DeviceGuarded
<1>6. Stopped(handler', dapp', yielded')
  BY <1>2, <1>3 DEF Stopped, InCall
<1>7. RepliesTrue(reply', issued')
  <2>1. \A e \in Conn : reply'[e] = reply[e] \/ reply'[e] = NoReply
    BY <1>2 DEF Typed
  <2>. QED
    BY <1>2, <2>1 DEF RepliesTrue, Replied, NoReply
<1>. QED
  BY <1>4, <1>5, <1>6, <1>7 DEF Serves, ServerInv

-----------------------------------------------------------------------------
(* The server uses the API as Rollup.tla says.                             *)

\* Every step of the server and its machine is a step of the machine.
LEMMA HttpSteps == Serves /\ [NextHttp]_varsHttp => [Next]_vars
<1>. SUFFICES ASSUME Serves, [NextHttp]_varsHttp PROVE [Next]_vars
  OBVIOUS
<1>1. ASSUME NEW c \in Conn, call_rollup(c) PROVE [Next]_vars
  <2>1. CASE bad_payload(c)
    BY <2>1 DEF bad_payload
  <2>2. CASE post_output(c)
    <3>1. PICK kind \in OutputKind, rc \in ReturnCode :
            /\ handler[c].post.path = kind
            /\ emit_output([kind |-> kind, payload |-> handler[c].post.payload], rc)
      BY <2>2 DEF post_output, Locked
    <3>2. handler[c].post.payload \in Payload
      BY <3>1, PostOfPath DEF OutputKind
    <3>. QED
      BY <3>1, <3>2
         DEF Next, cmt_rollup_emit_voucher, cmt_rollup_emit_delegate_call_voucher,
             cmt_rollup_emit_notice, OutputKind
  <2>3. CASE post_report(c)
    <3>1. handler[c].post.payload \in Payload
      BY <2>3, PostOfPath DEF post_report, Locked
    <3>. QED
      BY <2>3, <3>1 DEF post_report, Next
  <2>4. CASE post_gio(c)
    <3>1. handler[c].post.payload \in Payload
      BY <2>4, PostOfPath DEF post_gio, Locked
    <3>. QED
      BY <2>4, <3>1 DEF post_gio, Next
  <2>5. CASE post_exception(c)
    <3>1. handler[c].post.payload \in Payload
      BY <2>5, PostOfPath DEF post_exception, Locked
    <3>. QED
      BY <2>5, <3>1 DEF post_exception, Next
  <2>6. CASE post_finish(c)
    BY <2>6 DEF post_finish, Next
  <2>. QED
    BY <1>1, <2>1, <2>2, <2>3, <2>4, <2>5, <2>6 DEF call_rollup
<1>2. ASSUME NEW c \in Conn, NEW post \in Posts, receive(c, post) PROVE [Next]_vars
  BY <1>2 DEF receive
<1>3. ASSUME NEW c \in Conn,
             refuse(c) \/ lock_context(c) \/ disconnect(c) \/ read_and_respond(c)
      PROVE  [Next]_vars
  BY <1>3 DEF refuse, lock_context, disconnect, read_and_respond
<1>4. CASE dapp_exits
  BY <1>4 DEF dapp_exits
<1>5. CASE throw_exception
  BY <1>5 DEF throw_exception, Throw, Next
<1>6. ASSUME NEW req \in Request, resume_finish(req) PROVE [Next]_vars
  BY <1>6 DEF resume_finish, Next
<1>7. ASSUME NEW p \in Payload, resume_gio(p) PROVE [Next]_vars
  BY <1>7 DEF resume_gio, Next
<1>8. CASE put_back
  BY <1>8 DEF put_back, Next
<1>9. CASE host_gives_up
  BY <1>9 DEF host_gives_up
<1>10. CASE UNCHANGED varsHttp
  BY <1>10 DEF varsHttp
<1>. QED
  BY <1>1, <1>2, <1>3, <1>4, <1>5, <1>6, <1>7, <1>8, <1>9, <1>10 DEF NextHttp

-----------------------------------------------------------------------------
(* The rest of the invariant, where little of it changes.                  *)

\* The saved machine and the mark.
LEMMA RestKept ==
  ASSUME SavedServes, NeverReset, UNCHANGED <<saved, snapshot, mark>>
  PROVE  SavedServes' /\ NeverReset'
BY DEF SavedServes, NeverReset

\* The request in rx, if nobody touches it and no finish returns.
LEMMA ReturnedKept ==
  ASSUME ReturnedRequestInRx, UNCHANGED <<rx, fromhost_data>>,
         \A c \in Conn : handler'[c].at = "returned" => handler'[c] = handler[c]
  PROVE  ReturnedRequestInRx'
BY DEF ReturnedRequestInRx

\* In a machine that is stopped, or whose device is free, no handler is there
\* to read a request.
LEMMA NoneReturned ==
  ASSUME Serves', yielded' # "no" \/ rollup_fd' = {}
  PROVE  ReturnedRequestInRx'
<1>1. ASSUME NEW c \in Conn, handler'[c].at = "returned" PROVE FALSE
  <2>1. c \in rollup_fd' /\ \A q \in rollup_fd' : q = c
    BY <1>1 DEF Serves, ServerInv, DeviceGuarded
  <2>2. PICK p \in Process : InCall(handler', dapp', p)
    BY <2>1 DEF Serves, ServerInv, Stopped
  <2>3. p \in rollup_fd'
    BY <2>2 DEF Serves, ServerInv, DeviceGuarded, InCall
  <2>4. p = c
    BY <2>1, <2>3
  <2>. QED
    BY <1>1, <2>2, <2>4, DappAssumption DEF InCall
<1>. QED
  BY <1>1 DEF ReturnedRequestInRx

\* A response without a body.
LEMMA NoReplyReplied == \A indices : Replied(NoReply, indices)
BY DEF Replied, NoReply

-----------------------------------------------------------------------------
(* No action breaks it.                                                    *)

\* What waits for a lock, or for nothing.
LEMMA WaitingKeeps ==
  ASSUME ServerPart, NEW c \in Conn,
         \/ \E post \in Posts : receive(c, post)
         \/ refuse(c) \/ lock_context(c) \/ disconnect(c)
  PROVE  ServerPart'
<1>1. /\ UNCHANGED <<vars, rollup_fd, dapp, saved>> /\ Running
  BY DEF receive, refuse, lock_context, disconnect
<1>2. /\ UNCHANGED <<rx, fromhost_data, yielded, issued, snapshot, mark>>
      /\ yielded = "no"
  BY <1>1 DEF vars, guest, host, Running
<1>3. /\ Serves /\ SavedServes /\ ReturnedRequestInRx /\ NeverReset
      /\ Typed(handler, reply, context, rollup_fd, dapp)
      /\ ContextGuarded(handler, context)
  BY DEF ServerPart, Serves, ServerInv
<1>4. WorkerOf[c] \in Worker /\ handler[c] \in Handler
  BY <1>3, WorkerAssumption DEF Typed
<1>5. SUFFICES Serves' /\ \A e \in Conn : handler'[e].at = "returned" => handler'[e] = handler[e]
  <2>1. SavedServes' /\ NeverReset'
    BY <1>1, <1>2, <1>3, RestKept
  <2>. QED
    BY <1>2, <1>3, <1>5, <2>1, ReturnedKept DEF ServerPart
<1>6. ASSUME NEW post \in Posts, receive(c, post)
      PROVE  Serves' /\ \A e \in Conn : handler'[e].at = "returned" => handler'[e] = handler[e]
  <2>. DEFINE entry == [Idle EXCEPT !.at = "wait_context", !.post = post]
  <2>1. entry \in Handler /\ entry.at = "wait_context"
    BY DEF Idle, Handler, Place
  <2>2. /\ handler' = [handler EXCEPT ![c] = entry]
        /\ handler[c].at = "idle"
        /\ reply' = [reply EXCEPT ![c] = NoReply] /\ context' = context
    BY <1>6 DEF receive, At
  <2>3. handler'[c] = entry /\ \A e \in Conn : e # c => handler'[e] = handler[e]
    BY <1>3, <2>2 DEF Typed
  <2>4. ContextGuarded(handler', context')
    BY <1>3, <2>1, <2>2, <2>3 DEF ContextGuarded
  <2>5. context' \in [Worker -> SUBSET Conn]
    BY <1>3, <2>2 DEF Typed
  <2>. HIDE DEF entry
  <2>6. Serves'
    BY <1>1, <1>2, <1>3, <2>1, <2>2, <2>4, <2>5, MoveKeeps
  <2>. QED
    BY <2>1, <2>3, <2>6
<1>7. CASE refuse(c)
  <2>1. /\ handler' = handler /\ context' = context
        /\ reply' = [reply EXCEPT ![c] = NoReply]
        /\ handler[c].at = "idle"
    BY <1>7 DEF refuse, At
  <2>2. handler' = [handler EXCEPT ![c] = handler[c]]
    BY <1>3, <2>1 DEF Typed
  <2>3. ContextGuarded(handler', context') /\ context' \in [Worker -> SUBSET Conn]
    BY <1>3, <2>1 DEF Typed
  <2>4. Serves'
    BY <1>1, <1>2, <1>3, <1>4, <2>1, <2>2, <2>3, MoveKeeps
  <2>. QED
    BY <2>1, <2>4
<1>8. CASE lock_context(c)
  <2>. DEFINE entry == [handler[c] EXCEPT !.at = "wait_fd"]
  <2>1. /\ handler' = [handler EXCEPT ![c].at = "wait_fd"]
        /\ handler[c].at = "wait_context" /\ context[WorkerOf[c]] = {}
        /\ context' = [context EXCEPT ![WorkerOf[c]] = {c}] /\ reply' = reply
    BY <1>8 DEF lock_context, At, Goto
  <2>2. entry \in Handler /\ entry.at = "wait_fd" /\ handler' = [handler EXCEPT ![c] = entry]
    BY <1>3, <1>4, <2>1 DEF Typed, Handler, Place
  <2>3. handler'[c] = entry /\ \A e \in Conn : e # c => handler'[e] = handler[e]
    BY <1>3, <2>2 DEF Typed
  <2>4. context' \in [Worker -> SUBSET Conn]
    BY <1>3, <1>4, <2>1 DEF Typed
  <2>5. \A w \in Worker : context'[w] = IF w = WorkerOf[c] THEN {c} ELSE context[w]
    BY <1>3, <2>1 DEF Typed
  <2>. HIDE DEF entry
  <2>6. ContextGuarded(handler', context')
    <3>1. ASSUME NEW w \in Worker, NEW e \in Conn
          PROVE  e \in context'[w] <=>
                   WorkerOf[e] = w /\ handler'[e].at \in {"wait_fd", "calling", "returned"}
      <4>0. e \in context[w] <=>
              WorkerOf[e] = w /\ handler[e].at \in {"wait_fd", "calling", "returned"}
        BY <1>3 DEF ContextGuarded
      <4>1. CASE e = c
        BY <2>1, <2>2, <2>3, <2>5, <4>0, <4>1
      <4>2. CASE e # c
        BY <2>1, <2>3, <2>5, <4>0, <4>2
      <4>. QED
        BY <4>1, <4>2
    <3>2. ASSUME NEW w \in Worker, NEW e \in context'[w], NEW f \in context'[w] PROVE e = f
      BY <1>3, <2>5, <3>2 DEF ContextGuarded
    <3>. QED
      BY <3>1, <3>2 DEF ContextGuarded
  <2>7. Serves'
    BY <1>1, <1>2, <1>3, <2>1, <2>2, <2>4, <2>6, MoveKeeps
  <2>. QED
    BY <2>2, <2>3, <2>7
<1>9. CASE disconnect(c)
  <2>1. /\ handler' = [handler EXCEPT ![c] = Idle]
        /\ handler[c].at \in {"wait_context", "wait_fd"}
        /\ context' = [context EXCEPT ![WorkerOf[c]] = @ \ {c}] /\ reply' = reply
    BY <1>9 DEF disconnect, At
  <2>2. Idle.at = "idle"
    BY DEF Idle
  <2>3. handler'[c] = Idle /\ \A e \in Conn : e # c => handler'[e] = handler[e]
    BY <1>3, <2>1 DEF Typed
  <2>4. context' \in [Worker -> SUBSET Conn]
    BY <1>3, <1>4, <2>1 DEF Typed
  <2>5. \A w \in Worker : context'[w] = IF w = WorkerOf[c] THEN context[w] \ {c} ELSE context[w]
    BY <1>3, <2>1 DEF Typed
  <2>6. ContextGuarded(handler', context')
    <3>1. ASSUME NEW w \in Worker, NEW e \in Conn
          PROVE  e \in context'[w] <=>
                   WorkerOf[e] = w /\ handler'[e].at \in {"wait_fd", "calling", "returned"}
      <4>0. e \in context[w] <=>
              WorkerOf[e] = w /\ handler[e].at \in {"wait_fd", "calling", "returned"}
        BY <1>3 DEF ContextGuarded
      <4>1. CASE e = c
        BY <2>2, <2>3, <2>5, <4>0, <4>1
      <4>2. CASE e # c
        BY <2>3, <2>5, <4>0, <4>2
      <4>. QED
        BY <4>1, <4>2
    <3>2. \A w \in Worker : context'[w] \subseteq context[w]
      BY <2>5
    <3>. QED
      BY <1>3, <3>1, <3>2 DEF ContextGuarded
  <2>7. Serves'
    BY <1>1, <1>2, <1>3, <2>1, <2>2, <2>4, <2>6, IdleIsHandler, MoveKeeps
  <2>. QED
    BY <2>2, <2>3, <2>7
<1>. QED
  BY <1>6, <1>7, <1>8, <1>9

\* A call under the lock that returns at once: the response, and a free device.
LEMMA LockedResponds ==
  ASSUME ServerPart, NEW c \in Conn, NEW response, Respond(c, response),
         rollup_fd = {}, Running, Replied(response, issued'), issued \subseteq issued',
         UNCHANGED <<yielded, saved, snapshot, mark>>
  PROVE  ServerPart'
<1>1. Serves'
  BY RespondKeeps DEF ServerPart, Running
<1>2. rollup_fd' = {}
  BY DEF Respond
<1>3. ReturnedRequestInRx'
  BY <1>1, <1>2, NoneReturned
<1>. QED
  BY <1>1, <1>3, RestKept DEF ServerPart

\* A call under the lock that may stop the machine.
LEMMA LockedStaysOrResponds ==
  ASSUME ServerPart, NEW c \in Conn, NEW rc \in ReturnCode, StaysOrResponds(c, rc),
         handler[c].at = "wait_fd", rollup_fd = {}, Running,
         IF rc = "stopped"
           THEN \/ yielded' = "tx_exception"
                \/ yielded' = "gio" /\ handler[c].post.path = "gio"
                \/ yielded' \in {"rx_rejected", "inspect_dropped"}
                   /\ handler[c].post.path = "finish"
           ELSE yielded' = yielded,
         UNCHANGED <<issued, saved, snapshot, mark>>
  PROVE  ServerPart'
<1>1. CASE rc = "stopped"
  <2>1. Serves'
    BY <1>1, StayKeeps DEF ServerPart
  <2>2. ReturnedRequestInRx'
    BY <1>1, <2>1, NoneReturned
  <2>. QED
    BY <2>1, <2>2, RestKept DEF ServerPart
<1>2. CASE rc # "stopped"
  BY <1>2, LockedResponds, NoReplyReplied DEF StaysOrResponds
<1>. QED
  BY <1>1, <1>2

\* The index that an emission gives out is a new one.
LEMMA NewIndex ==
  ASSUME IInv, NEW o, emit_output(o, "OK")
  PROVE  /\ (CHOOSE e \in issued' \ issued : TRUE) \in issued'
         /\ issued \subseteq issued'
<1>1. issued' = issued \cup {[index |-> next_index, output |-> o]}
  BY DEF emit_output, refused
<1>2. next_index \in Nat /\ next_index = Len(merkle)
  BY DEF next_index, IInv, TypeInv, TypeOK
<1>3. [index |-> next_index, output |-> o] \notin issued
  BY <1>2 DEF IInv, IssuedInTree
<1>4. \E e : e \in issued' \ issued
  BY <1>1, <1>3
<1>5. (CHOOSE e \in issued' \ issued : TRUE) \in issued' \ issued
  BY <1>4
<1>. QED
  BY <1>1, <1>5

\* What an emission leaves alone.
LEMMA EmitFrame ==
  ASSUME NEW o, NEW rc, emit_output(o, rc)
  PROVE  /\ UNCHANGED <<yielded, snapshot, mark>> /\ issued \subseteq issued'
BY DEF emit_output, vars, guest, host

\* A finish whose request is accepted: the machine with the caller in it is saved.
LEMMA AcceptKeeps ==
  ASSUME ServerPart, NEW c \in Conn, handler[c].at = "wait_fd", rollup_fd = {}, Running,
         handler[c].post.path = "finish", finish_accept, StaysOrResponds(c, "stopped"),
         saved' = [taken |-> TRUE, handler |-> handler', reply |-> reply,
                   context |-> context, rollup_fd |-> rollup_fd', dapp |-> dapp]
  PROVE  ServerPart'
<1>1. /\ yielded' = "rx_accepted" /\ UNCHANGED <<issued, mark>>
      /\ snapshot'.issued = issued /\ snapshot'.mark = mark
  BY DEF finish_accept
<1>2. Serves'
  BY <1>1, StayKeeps DEF ServerPart
<1>3. ReturnedRequestInRx'
  BY <1>1, <1>2, NoneReturned
<1>4. NeverReset'
  BY <1>1 DEF ServerPart, NeverReset
<1>5. SavedServes'
  <2>1. UNCHANGED <<reply, context, dapp>>
    BY DEF StaysOrResponds
  <2>. QED
    BY <1>1, <1>2, <2>1 DEF Serves, SavedServes
<1>. QED
  BY <1>2, <1>3, <1>4, <1>5 DEF ServerPart

\* The handlers of all paths, from the lock to the response.
LEMMA CallKeeps ==
  ASSUME IInv, ServerPart, NEW c \in Conn, call_rollup(c)
  PROVE  ServerPart'
<1>1. CASE bad_payload(c)
  <2>1. Respond(c, NoReply) /\ rollup_fd = {} /\ Running /\ UNCHANGED <<vars, saved>>
    BY <1>1 DEF bad_payload
  <2>2. UNCHANGED <<yielded, saved, snapshot, mark, issued>>
    BY <2>1 DEF vars, guest, host
  <2>. QED
    BY <2>1, <2>2, LockedResponds, NoReplyReplied
<1>2. CASE post_output(c)
  <2>. DEFINE answer(rc) == IF rc = "OK" THEN Created(CHOOSE e \in issued' \ issued : TRUE)
                                         ELSE NoReply
  <2>1. PICK kind \in OutputKind, rc \in ReturnCode :
          /\ Locked(c, kind)
          /\ emit_output([kind |-> kind, payload |-> handler[c].post.payload], rc)
          /\ Respond(c, answer(rc))
          /\ UNCHANGED saved
    BY <1>2 DEF post_output
  <2>2. Running /\ rollup_fd = {}
    BY <2>1 DEF Locked
  <2>3. UNCHANGED <<yielded, snapshot, mark>> /\ issued \subseteq issued'
    BY <2>1, EmitFrame
  <2>4. Replied(answer(rc), issued')
    <3>1. CASE rc = "OK"
      <4>1. (CHOOSE e \in issued' \ issued : TRUE) \in issued'
        BY <2>1, <3>1, NewIndex
      <4>. QED
        BY <3>1, <4>1 DEF Replied, Created
    <3>. QED
      BY <3>1, NoReplyReplied
  <2>. HIDE DEF answer
  <2>. QED
    BY <2>1, <2>2, <2>3, <2>4, LockedResponds
<1>3. CASE post_report(c)
  <2>1. /\ Respond(c, NoReply) /\ rollup_fd = {} /\ Running /\ UNCHANGED <<vars, saved>>
    BY <1>3 DEF post_report, Locked, cmt_rollup_emit_report
  <2>2. UNCHANGED <<yielded, saved, snapshot, mark, issued>>
    BY <2>1 DEF vars, guest, host
  <2>. QED
    BY <2>1, <2>2, LockedResponds, NoReplyReplied
<1>4. CASE post_gio(c)
  <2>1. PICK rc \in ReturnCode : /\ cmt_gio_request(handler[c].post.payload, rc)
                                 /\ StaysOrResponds(c, rc)
    BY <1>4 DEF post_gio
  <2>2. /\ handler[c].at = "wait_fd" /\ rollup_fd = {} /\ Running
        /\ handler[c].post.path = "gio" /\ saved' = saved
    BY <1>4 DEF post_gio, Locked, At
  <2>3. /\ IF rc = "stopped" THEN yielded' = "gio" ELSE yielded' = yielded
        /\ UNCHANGED <<issued, snapshot, mark>>
    BY <2>1 DEF cmt_gio_request, stop, refused, guest, host
  <2>. QED
    BY <2>1, <2>2, <2>3, LockedStaysOrResponds
<1>5. CASE post_exception(c)
  <2>1. PICK rc \in ReturnCode : /\ cmt_rollup_emit_exception(handler[c].post.payload, rc)
                                 /\ StaysOrResponds(c, rc)
    BY <1>5 DEF post_exception
  <2>2. /\ handler[c].at = "wait_fd" /\ rollup_fd = {} /\ Running /\ saved' = saved
    BY <1>5 DEF post_exception, Locked, At
  <2>3. /\ IF rc = "stopped" THEN yielded' = "tx_exception" ELSE yielded' = yielded
        /\ UNCHANGED <<issued, snapshot, mark>>
    BY <2>1 DEF cmt_rollup_emit_exception, stop, refused, guest, host
  <2>. QED
    BY <2>1, <2>2, <2>3, LockedStaysOrResponds
<1>6. CASE post_finish(c)
  <2>1. /\ handler[c].at = "wait_fd" /\ rollup_fd = {} /\ Running
        /\ handler[c].post.path = "finish"
    BY <1>6 DEF post_finish, Locked, At
  <2>2. CASE /\ finish_accept /\ StaysOrResponds(c, "stopped")
             /\ saved' = [taken |-> TRUE, handler |-> handler', reply |-> reply,
                          context |-> context, rollup_fd |-> rollup_fd', dapp |-> dapp]
    BY <2>1, <2>2, AcceptKeeps
  <2>3. CASE finish_accept_inspect /\ StaysOrResponds(c, "stopped") /\ saved' = saved
    <3>1. yielded' = "inspect_dropped" /\ UNCHANGED <<issued, snapshot, mark>>
      BY <2>3 DEF finish_accept_inspect, host
    <3>. QED
      BY <2>1, <2>3, <3>1, LockedStaysOrResponds DEF ReturnCode
  <2>4. CASE finish_accept_fails /\ StaysOrResponds(c, "EIO") /\ saved' = saved
    <3>1. yielded' = yielded /\ UNCHANGED <<issued, snapshot, mark>>
      BY <2>4 DEF finish_accept_fails, host
    <3>. QED
      BY <2>1, <2>4, <3>1, LockedStaysOrResponds DEF ReturnCode
  <2>5. ASSUME NEW rc \in ReturnCode, finish_reject(rc), StaysOrResponds(c, rc), saved' = saved
        PROVE  ServerPart'
    <3>1. /\ IF rc = "stopped" THEN yielded' = "rx_rejected" ELSE yielded' = yielded
          /\ UNCHANGED <<issued, snapshot, mark>>
      BY <2>5 DEF finish_reject, host
    <3>. QED
      BY <2>1, <2>5, <3>1, LockedStaysOrResponds
  <2>. QED
    BY <1>6, <2>2, <2>3, <2>4, <2>5 DEF post_finish
<1>. QED
  BY <1>1, <1>2, <1>3, <1>4, <1>5, <1>6 DEF call_rollup

\* The reading of the request under the lock of its finish.
LEMMA ReadKeeps ==
  ASSUME ServerPart, NEW c \in Conn, read_and_respond(c)
  PROVE  ServerPart'
<1>. DEFINE r == read_request(handler[c].next)
            answer == IF r.rc = "OK" THEN Ok(r.payload, handler[c].sent) ELSE NoReply
<1>1. /\ Running /\ handler[c].at = "returned" /\ Respond(c, answer)
      /\ UNCHANGED <<vars, saved>>
  BY DEF read_and_respond, At
<1>2. UNCHANGED <<yielded, saved, snapshot, mark, issued>> /\ yielded = "no"
  BY <1>1 DEF vars, guest, host, Running
<1>3. /\ rx = handler[c].sent /\ rx \in Request /\ handler[c].next = rx.type
      /\ fromhost_data = MessageLength(rx)
  BY <1>1 DEF ServerPart, ReturnedRequestInRx
<1>4. r = Whole(rx)
  BY <1>3, WholeRead
<1>5. Replied(answer, issued')
  BY <1>3, <1>4 DEF Replied, Ok, Whole
<1>. HIDE DEF answer
<1>6. Serves'
  BY <1>1, <1>2, <1>5, RespondKeeps DEF ServerPart
<1>7. rollup_fd' = {}
  <2>1. c \in rollup_fd /\ \A q \in rollup_fd : q = c
    BY <1>1 DEF ServerPart, Serves, ServerInv, DeviceGuarded
  <2>. QED
    BY <1>1, <2>1 DEF Respond
<1>8. ReturnedRequestInRx'
  BY <1>6, <1>7, NoneReturned
<1>. QED
  BY <1>2, <1>6, <1>8, RestKept DEF ServerPart

\* The dapp exits, or its exit is raised.
LEMMA DappKeeps ==
  ASSUME ServerPart, dapp_exits \/ throw_exception
  PROVE  ServerPart'
<1>1. /\ Typed(handler, reply, context, rollup_fd, dapp)
      /\ DeviceGuarded(handler, rollup_fd, dapp)
      /\ ContextGuarded(handler, context)
      /\ Stopped(handler, dapp, yielded)
      /\ RepliesTrue(reply, issued)
  BY DEF ServerPart, Serves, ServerInv
<1>2. UNCHANGED <<handler, reply, context, saved>> /\ Running
  BY DEF dapp_exits, throw_exception
<1>3. UNCHANGED <<issued, snapshot, mark, rx, fromhost_data>>
  BY DEF dapp_exits, throw_exception, Throw, cmt_rollup_emit_exception, stop, vars, guest, host
<1>4. /\ dapp # "throwing" /\ DappProcess \notin rollup_fd
      /\ \A c \in Conn : handler[c].at # "calling"
  BY <1>1, <1>2 DEF Stopped, Running, InCall, Process, DeviceGuarded
<1>5. CASE dapp' # "throwing" /\ yielded' = yielded /\ rollup_fd' = rollup_fd
           /\ dapp' \in {"exited", "abandoned"}
  <2>1. Stopped(handler', dapp', yielded')
    BY <1>2, <1>4, <1>5 DEF Stopped, InCall, Running
  <2>2. DeviceGuarded(handler', rollup_fd', dapp')
    BY <1>1, <1>2, <1>4, <1>5 DEF DeviceGuarded
  <2>3. Typed(handler', reply', context', rollup_fd', dapp')
    BY <1>1, <1>2, <1>5 DEF Typed
  <2>4. Serves'
    BY <1>1, <1>2, <1>3, <2>1, <2>2, <2>3 DEF Serves, ServerInv
  <2>. QED
    BY <1>2, <1>3, <2>4, RestKept, ReturnedKept DEF ServerPart
<1>6. CASE /\ dapp' = "throwing" /\ yielded' = "tx_exception"
           /\ rollup_fd = {} /\ rollup_fd' = {DappProcess}
  <2>1. Stopped(handler', dapp', yielded')
    BY <1>6 DEF Stopped, InCall, Process
  <2>2. DeviceGuarded(handler', rollup_fd', dapp')
    BY <1>1, <1>2, <1>6, DappAssumption DEF DeviceGuarded
  <2>3. Typed(handler', reply', context', rollup_fd', dapp')
    BY <1>1, <1>2, <1>6 DEF Typed, Process
  <2>4. Serves'
    BY <1>1, <1>2, <1>3, <2>1, <2>2, <2>3 DEF Serves, ServerInv
  <2>5. ReturnedRequestInRx'
    BY <1>6, <2>4, NoneReturned
  <2>. QED
    BY <1>2, <1>3, <2>4, <2>5, RestKept DEF ServerPart
<1>7. CASE dapp_exits
  <2>1. dapp' = "exited" /\ rollup_fd' = rollup_fd /\ yielded' = yielded
    BY <1>7 DEF dapp_exits, vars
  <2>. QED
    BY <1>5, <2>1
<1>8. CASE throw_exception
  <2>1. rollup_fd = {}
    BY <1>8 DEF throw_exception
  <2>2. PICK p \in Payload, rc \in ReturnCode :
          /\ cmt_rollup_emit_exception(p, rc)
          /\ IF rc = "stopped"
               THEN dapp' = "throwing" /\ rollup_fd' = rollup_fd \cup {DappProcess}
               ELSE dapp' = "abandoned" /\ UNCHANGED rollup_fd
    BY <1>8 DEF throw_exception, Throw
  <2>3. IF rc = "stopped" THEN yielded' = "tx_exception" ELSE yielded' = yielded
    BY <2>2 DEF cmt_rollup_emit_exception, stop, refused
  <2>. QED
    BY <1>5, <1>6, <2>1, <2>2, <2>3
<1>. QED
  BY <1>7, <1>8

\* The finish returns to the handler that was in it.
LEMMA FinishReturns ==
  ASSUME ServerPart, NEW req \in Request, resume_finish(req)
  PROVE  ServerPart'
<1>1. /\ Typed(handler, reply, context, rollup_fd, dapp)
      /\ DeviceGuarded(handler, rollup_fd, dapp)
      /\ ContextGuarded(handler, context)
      /\ RepliesTrue(reply, issued)
  BY DEF ServerPart, Serves, ServerInv
<1>2. /\ yielded' = "no" /\ rx' = req /\ fromhost_data' = MessageLength(req)
      /\ UNCHANGED <<issued, mark, snapshot, saved, reply, context, rollup_fd, dapp>>
  BY DEF resume_finish, finish_returns
<1>3. PICK c \in Conn :
        /\ handler[c].at = "calling"
        /\ handler' = [handler EXCEPT ![c] = [at |-> "returned", post |-> handler[c].post,
                                              next |-> req.type, sent |-> req]]
  BY DEF resume_finish, At
<1>4. /\ handler'[c] = [at |-> "returned", post |-> handler[c].post,
                        next |-> req.type, sent |-> req]
      /\ \A e \in Conn : e # c => handler'[e] = handler[e]
  BY <1>1, <1>3 DEF Typed
<1>5. /\ handler'[c].at = "returned" /\ handler'[c].sent = req /\ handler'[c].next = req.type
      /\ handler'[c] \in Handler
  <2>1. handler[c].post \in Posts \cup {NoPost} /\ req.type \in RequestType
    BY <1>1 DEF Typed, Handler, Request
  <2>. QED
    BY <1>4, <2>1 DEF Handler, Place
<1>6. c \in rollup_fd /\ \A q \in rollup_fd : q = c
  BY <1>1, <1>3 DEF DeviceGuarded
<1>7. Typed(handler', reply', context', rollup_fd', dapp')
  BY <1>1, <1>2, <1>3, <1>4, <1>5 DEF Typed
<1>8. DeviceGuarded(handler', rollup_fd', dapp')
  BY <1>1, <1>2, <1>4, <1>5, <1>6 DEF DeviceGuarded
<1>9. ContextGuarded(handler', context')
  BY <1>1, <1>2, <1>3, <1>4, <1>5 DEF ContextGuarded
<1>10. Stopped(handler', dapp', yielded')
  <2>1. ASSUME NEW p \in Process, InCall(handler', dapp', p) PROVE FALSE
    <3>1. p # c
      BY <1>5, <2>1, DappAssumption DEF InCall
    <3>2. p \in rollup_fd
      BY <1>1, <1>2, <1>4, <2>1, <3>1 DEF InCall, DeviceGuarded
    <3>. QED
      BY <1>6, <3>1, <3>2
  <2>. QED
    BY <1>2, <2>1 DEF Stopped
<1>11. Serves'
  BY <1>1, <1>2, <1>7, <1>8, <1>9, <1>10 DEF Serves, ServerInv
<1>12. ReturnedRequestInRx'
  <2>1. ASSUME NEW e \in Conn, handler'[e].at = "returned" PROVE e = c
    BY <1>2, <1>6, <1>8, <2>1 DEF DeviceGuarded
  <2>. QED
    BY <1>2, <1>5, <2>1 DEF ReturnedRequestInRx
<1>. QED
  BY <1>2, <1>11, <1>12, RestKept DEF ServerPart

\* The generic request returns to the handler that was in it.
LEMMA GioReturns ==
  ASSUME ServerPart, NEW p \in Payload, resume_gio(p)
  PROVE  ServerPart'
<1>1. yielded' = "no" /\ UNCHANGED <<issued, mark, snapshot, saved>>
  BY DEF resume_gio, gio_returns, host
<1>2. PICK c \in Conn : handler[c].at = "calling" /\ Respond(c, NoReply)
  BY DEF resume_gio, At
<1>3. Serves'
  BY <1>1, <1>2, RespondKeeps, NoReplyReplied DEF ServerPart
<1>4. rollup_fd' = {}
  <2>1. c \in rollup_fd /\ \A q \in rollup_fd : q = c
    BY <1>2 DEF ServerPart, Serves, ServerInv, DeviceGuarded
  <2>. QED
    BY <1>2, <2>1 DEF Respond
<1>5. ReturnedRequestInRx'
  BY <1>3, <1>4, NoneReturned
<1>. QED
  BY <1>1, <1>3, <1>5, RestKept DEF ServerPart

\* The saved machine, with its server, is put back.
LEMMA PutBackKeeps ==
  ASSUME ServerPart, put_back
  PROVE  ServerPart'
<1>1. /\ handler' = saved.handler /\ reply' = saved.reply /\ context' = saved.context
      /\ rollup_fd' = saved.rollup_fd /\ dapp' = saved.dapp /\ saved' = saved
  BY DEF put_back
<1>2. /\ snapshot.taken /\ yielded' = "rx_accepted" /\ snapshot' = snapshot
      /\ issued' = snapshot.issued /\ mark' = snapshot.mark
  BY DEF put_back, host_revert
<1>3. Serves'
  BY <1>1, <1>2 DEF ServerPart, SavedServes, Serves
<1>4. ReturnedRequestInRx'
  BY <1>2, <1>3, NoneReturned
<1>5. SavedServes' /\ NeverReset'
  BY <1>1, <1>2 DEF ServerPart, SavedServes, NeverReset
<1>. QED
  BY <1>3, <1>4, <1>5 DEF ServerPart

\* The invariant holds at the start.
LEMMA InitHttpInv == InitHttp => HttpInv
<1>. SUFFICES ASSUME InitHttp PROVE HttpInv
  OBVIOUS
<1>1. /\ handler = [c \in Conn |-> Idle] /\ reply = [c \in Conn |-> NoReply]
      /\ context = [w \in Worker |-> {}] /\ rollup_fd = {} /\ dapp = "running"
      /\ yielded = "no" /\ mark = 0 /\ snapshot = NoSnapshot
  BY DEF InitHttp, Init
<1>2. Idle.at = "idle" /\ ~snapshot.taken
  BY <1>1 DEF Idle, NoSnapshot
<1>3. IInv
  BY InitIInv DEF InitHttp
<1>4. Typed(handler, reply, context, rollup_fd, dapp)
  BY <1>1, IdleIsHandler DEF Typed
<1>5. DeviceGuarded(handler, rollup_fd, dapp) /\ ContextGuarded(handler, context)
  BY <1>1, <1>2 DEF DeviceGuarded, ContextGuarded
<1>6. Stopped(handler, dapp, yielded)
  BY <1>1, <1>2 DEF Stopped, InCall
<1>7. RepliesTrue(reply, issued)
  BY <1>1, NoReplyReplied DEF RepliesTrue
<1>8. SavedServes /\ ReturnedRequestInRx /\ NeverReset
  BY <1>1, <1>2 DEF SavedServes, ReturnedRequestInRx, NeverReset
<1>. QED
  BY <1>3, <1>4, <1>5, <1>6, <1>7, <1>8 DEF HttpInv, ServerPart, Serves, ServerInv

\* No step breaks the invariant.
LEMMA NextHttpInv == HttpInv /\ [NextHttp]_varsHttp => HttpInv'
<1>. SUFFICES ASSUME IInv, ServerPart, [NextHttp]_varsHttp PROVE ServerPart'
  BY HttpSteps, NextIInv DEF HttpInv, ServerPart
<1>1. ASSUME NEW c \in Conn,
             \/ \E post \in Posts : receive(c, post)
             \/ refuse(c) \/ lock_context(c) \/ disconnect(c)
      PROVE  ServerPart'
  BY <1>1, WaitingKeeps
<1>2. ASSUME NEW c \in Conn, call_rollup(c) PROVE ServerPart'
  BY <1>2, CallKeeps
<1>3. ASSUME NEW c \in Conn, read_and_respond(c) PROVE ServerPart'
  BY <1>3, ReadKeeps
<1>4. CASE dapp_exits \/ throw_exception
  BY <1>4, DappKeeps
<1>5. ASSUME NEW req \in Request, resume_finish(req) PROVE ServerPart'
  BY <1>5, FinishReturns
<1>6. ASSUME NEW p \in Payload, resume_gio(p) PROVE ServerPart'
  BY <1>6, GioReturns
<1>7. CASE put_back
  BY <1>7, PutBackKeeps
<1>8. CASE UNCHANGED varsHttp
  BY <1>8
     DEF varsHttp, server, vars, guest, host, ServerPart, Serves, SavedServes,
         ReturnedRequestInRx, NeverReset
<1>9. CASE host_gives_up /\ UNCHANGED <<server, saved>>
  BY <1>8, <1>9 DEF host_gives_up, varsHttp
<1>. QED
  BY <1>1, <1>2, <1>3, <1>4, <1>5, <1>6, <1>7, <1>8, <1>9 DEF NextHttp

\* The inductive invariant holds always.
LEMMA HttpInductive == SpecHttp => []HttpInv
BY InitHttpInv, NextHttpInv, PTL DEF SpecHttp

-----------------------------------------------------------------------------
(* Theorems.                                                               *)

\* The server, with all its handlers and machines put back, is one user of
\* the API: what holds of Rollup.tla holds under it.
THEOREM ServerIsOneUser == SpecHttp => Spec
<1>1. InitHttp => Init
  BY DEF InitHttp
<1>2. HttpInv /\ [NextHttp]_varsHttp => [Next]_vars
  BY HttpSteps DEF HttpInv, ServerPart
<1>. QED
  BY HttpInductive, <1>1, <1>2, PTL DEF SpecHttp, Spec

\* Handlers, locks and the dapp keep their types.
THEOREM HttpTypeCorrect == SpecHttp => []TypeOKHttp
<1>1. ASSUME HttpInv PROVE TypeOKHttp
  <2>1. TypeOK
    BY <1>1 DEF HttpInv, IInv, TypeInv
  <2>2. Typed(handler, reply, context, rollup_fd, dapp) /\ RepliesTrue(reply, issued)
    BY <1>1 DEF HttpInv, ServerPart, Serves, ServerInv
  <2>3. \A c \in Conn : handler[c] \in Handler /\ reply[c].status \in {0, 200, 201}
    BY <2>2 DEF Typed, RepliesTrue, Replied
  <2>. QED
    BY <2>1, <2>2, <2>3 DEF TypeOKHttp, Typed, Handler
<1>. QED
  BY HttpInductive, <1>1, PTL

\* No guard is lost or doubled.
THEOREM GuardsCorrect == SpecHttp => []NoLostGuard
<1>1. ASSUME HttpInv PROVE NoLostGuard
  <2>1. /\ Typed(handler, reply, context, rollup_fd, dapp)
        /\ DeviceGuarded(handler, rollup_fd, dapp)
        /\ ContextGuarded(handler, context)
    BY <1>1 DEF HttpInv, ServerPart, Serves, ServerInv
  <2>2. rollup_fd \subseteq Conn \cup {DappProcess}
    BY <2>1 DEF Typed, Process
  <2>3. rollup_fd = {c \in Conn : handler[c].at \in {"calling", "returned"}}
                      \cup (IF dapp = "throwing" THEN {DappProcess} ELSE {})
    BY <2>1, <2>2, DappAssumption DEF DeviceGuarded
  <2>4. ASSUME NEW w \in Worker
        PROVE  context[w] = {c \in Conn : WorkerOf[c] = w
                               /\ handler[c].at \in {"wait_fd", "calling", "returned"}}
    <3>1. context[w] \subseteq Conn
      BY <2>1 DEF Typed
    <3>. QED
      BY <2>1, <3>1 DEF ContextGuarded
  <2>. QED
    BY <2>1, <2>3, <2>4 DEF NoLostGuard, DeviceGuarded, ContextGuarded
<1>. QED
  BY HttpInductive, <1>1, PTL

\* A stopped machine has one thread in a call, the one that is answered.
THEOREM StopCorrect == SpecHttp => []StoppedInOwnersCall
<1>1. ASSUME HttpInv PROVE StoppedInOwnersCall
  <2>. DEFINE callers == {c \in Conn : At(c, "calling")}
                           \cup (IF dapp = "throwing" THEN {DappProcess} ELSE {})
  <2>1. /\ Stopped(handler, dapp, yielded) /\ Serves
    BY <1>1 DEF HttpInv, ServerPart, Serves, ServerInv
  <2>2. \A p : p \in callers <=> p \in Process /\ InCall(handler, dapp, p)
    BY DappAssumption DEF InCall, Process, At
  <2>3. CASE Running
    <3>1. callers = {}
      BY <2>1, <2>2, <2>3 DEF Stopped, Running
    <3>. QED
      BY <2>3, <3>1 DEF StoppedInOwnersCall
  <2>4. CASE ~Running
    <3>1. PICK p \in Process :
            /\ InCall(handler, dapp, p)
            /\ yielded \in {"rx_accepted", "rx_rejected", "inspect_dropped"} =>
                 p \in Conn /\ handler[p].post.path = "finish"
            /\ yielded = "gio" => p \in Conn /\ handler[p].post.path = "gio"
      BY <2>1, <2>4 DEF Stopped, Running
    <3>2. rollup_fd = {p}
      BY <2>1, <3>1, CallerHolds
    <3>3. ASSUME NEW q \in Process, InCall(handler, dapp, q) PROVE q = p
      BY <2>1, <3>1, <3>3, CallerHolds
    <3>4. callers = {p}
      BY <2>2, <3>1, <3>3
    <3>. QED
      BY <2>4, <3>1, <3>2, <3>4 DEF StoppedInOwnersCall
  <2>. QED
    BY <2>3, <2>4
<1>. QED
  BY HttpInductive, <1>1, PTL

\* A finish is answered with the request it waited for.
THEOREM FinishCorrect == SpecHttp => []FinishRepliesWithItsRequest
<1>1. HttpInv => FinishRepliesWithItsRequest
  BY DEF HttpInv, ServerPart, Serves, ServerInv, RepliesTrue, Replied,
         FinishRepliesWithItsRequest
<1>. QED
  BY HttpInductive, <1>1, PTL

\* The index in a response is the position of the output at the host.
THEOREM ReplyIndexCorrect == SpecHttp => []IndexReplyNamesOutput
<1>1. ASSUME HttpInv, IndexIsPosition PROVE IndexReplyNamesOutput
  <2>1. SUFFICES ASSUME NEW c \in Conn, reply[c].status = 201
                 PROVE  /\ reply[c].body.index < Len(outputs)
                        /\ outputs[reply[c].body.index + 1] = reply[c].body.output
    BY DEF IndexReplyNamesOutput
  <2>2. reply[c].body \in issued /\ mark = 0
    BY <1>1, <2>1
       DEF HttpInv, ServerPart, Serves, ServerInv, RepliesTrue, Replied, NeverReset
  <2>3. reply[c].body.index \in Nat
    BY <1>1, <2>2 DEF HttpInv, IInv, TypeInv, TypeOK
  <2>. QED
    BY <1>1, <2>2, <2>3 DEF IndexIsPosition
<1>2. Spec => []IndexIsPosition
  BY IndexCorrect
<1>. QED
  BY HttpInductive, ServerIsOneUser, <1>1, <1>2, PTL
=============================================================================

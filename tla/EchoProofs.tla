------------------------------ MODULE EchoProofs ------------------------------
(***************************************************************************)
(* Theorems of EchoApps.tla, for any numbers of copies, any inputs to      *)
(* reject or to throw on, ints of any width, and the constants of          *)
(* Rollup.tla.                                                             *)
(***************************************************************************)
EXTENDS EchoApps, RollupProofs, WellFoundedInduction

(* The inductive invariant.                                                *)

AppShape(a) ==
  /\ a = [program |-> a.program, at |-> a.at, accept |-> a.accept, given |-> a.given,
          done |-> a.done, missed |-> a.missed]
  /\ a.program \in {"ioctl-echo-loop", "echo-dapp"}

\* An advance may be accepted, or accepted once its exception was refused.
MayAccept(i) == i # Reject /\ (i = Exception => Runs("ioctl-echo-loop") /\ app.missed)

\* What has been decided where the program is.
StageInv ==
  /\ AppShape(app)
  /\ inputs \in Nat
  /\ request \in Request \cup {NoMessage}
  /\ At("starting") => request = NoMessage /\ Running
  /\ At("returned") => rx = request
  /\ At("echoing") => app.given.type = request.type
  /\ At("throwing") /\ app.accept => Index # Reject
  /\ At("finishing") /\ app.accept /\ request.type = "advance" => MayAccept(Index)

\* The program in the saved machine has accepted the same inputs.
AcceptedInv ==
  /\ accepted \in Seq([index : Int, payload : Payload])
  /\ NthNotAccepted
  /\ \A i \in DOMAIN accepted : accepted[i].index = Exception => saved.app.missed
  /\ snapshot.taken => /\ AppShape(saved.app) /\ saved.app.at = "calling"
                       /\ saved.app.program = app.program

EchoInv == StageInv /\ AcceptedInv

-----------------------------------------------------------------------------
\* Steps that accept nothing and put nothing back.
LEMMA NothingAccepted ==
  ASSUME EchoInv, UNCHANGED <<inputs, accepted, saved, snapshot>>,
         app'.program = app.program, app.missed => app'.missed
  PROVE  AcceptedInv'
BY DEF EchoInv, AcceptedInv, NthNotAccepted, Runs

\* The program goes from one place to another that is not said anything of.
LEMMA GoesOn ==
  ASSUME EchoInv, UNCHANGED <<inputs, accepted, saved, snapshot, request>>,
         NEW place \in {"calling", "ended", "exited"}, Goto(place)
  PROVE  EchoInv'
<1>1. /\ app'.at = place /\ app'.program = app.program /\ app'.missed = app.missed
      /\ AppShape(app')
  BY DEF EchoInv, StageInv, AppShape, Goto
<1>2. StageInv'
  BY <1>1 DEF EchoInv, StageInv, At
<1>. QED
  BY <1>1, <1>2, NothingAccepted DEF EchoInv

\* It asks for its first request.
LEMMA Begins ==
  ASSUME EchoInv, At("starting"), UNCHANGED <<vars, inputs, accepted, saved>>, Goto("finishing")
  PROVE  EchoInv'
<1>1. /\ app'.at = "finishing" /\ app'.program = app.program /\ app'.missed = app.missed
      /\ AppShape(app')
  BY DEF EchoInv, StageInv, AppShape, Goto
<1>2. StageInv'
  BY <1>1 DEF EchoInv, StageInv, At, NoMessage, vars, host
<1>. QED
  BY <1>1, <1>2, NothingAccepted DEF EchoInv, vars, host

\* It asks for the next one, and accepts the last.
LEMMA AcceptsOne ==
  ASSUME EchoInv, At("finishing"), app.accept, Accepts
  PROVE  EchoInv'
<1>1. /\ finish_accept /\ Goto("calling") /\ UNCHANGED inputs
      /\ saved' = [taken |-> TRUE, app |-> app']
      /\ accepted' = IF request.type = "advance"
                       THEN Append(accepted, [index |-> Index, payload |-> request.payload])
                       ELSE accepted
  BY DEF Accepts
<1>2. /\ app'.at = "calling" /\ app'.program = app.program /\ app'.missed = app.missed
      /\ AppShape(app')
  BY <1>1 DEF EchoInv, StageInv, AppShape, Goto
<1>3. StageInv'
  BY <1>1, <1>2 DEF EchoInv, StageInv, At, finish_accept
<1>4. CASE request.type # "advance"
  <2>1. accepted' = accepted
    BY <1>1, <1>4
  <2>. QED
    BY <1>1, <1>2, <1>3, <2>1 DEF EchoInv, AcceptedInv, NthNotAccepted, Runs
<1>5. CASE request.type = "advance"
  <2>. DEFINE new == [index |-> Index, payload |-> request.payload]
  <2>1. request \in Request /\ Index \in Int
    BY <1>5 DEF EchoInv, StageInv, NoMessage, Index
  <2>2. new \in [index : Int, payload : Payload] /\ new.index = Index
    BY <2>1 DEF Request
  <2>3. accepted' = Append(accepted, new) /\ MayAccept(Index)
    BY <1>1, <1>5 DEF EchoInv, StageInv
  <2>. HIDE DEF new
  <2>4. /\ accepted' \in Seq([index : Int, payload : Payload])
        /\ \A i \in DOMAIN accepted' : accepted'[i] = new \/ \E j \in DOMAIN accepted :
                                                               accepted'[i] = accepted[j]
    <3>1. accepted \in Seq([index : Int, payload : Payload])
      BY DEF EchoInv, AcceptedInv
    <3>. QED
      BY <2>2, <2>3, <3>1, AppendProperties
  <2>5. NthNotAccepted' /\ \A i \in DOMAIN accepted' : accepted'[i].index = Exception => app'.missed
    <3>1. SUFFICES ASSUME NEW i \in DOMAIN accepted'
                   PROVE  /\ accepted'[i].index # Reject
                          /\ accepted'[i].index = Exception => Runs("ioctl-echo-loop") /\ app.missed
      BY <1>2 DEF NthNotAccepted, Runs
    <3>2. CASE accepted'[i] = new
      BY <2>2, <2>3, <3>2 DEF MayAccept
    <3>3. CASE \E j \in DOMAIN accepted : accepted'[i] = accepted[j]
      BY <3>3 DEF EchoInv, AcceptedInv, NthNotAccepted
    <3>. QED
      BY <2>4, <3>2, <3>3
  <2>. QED
    BY <1>1, <1>2, <1>3, <2>4, <2>5 DEF EchoInv, AcceptedInv
<1>. QED
  BY <1>4, <1>5

\* It asks for the next one, whatever it says of the last.
LEMMA Finishes ==
  ASSUME EchoInv, At("finishing"),
         NEW place \in {"ended", "exited"},
         \/ app.accept /\ Accepts
         \/ /\ finish_accept_inspect \/ finish_accept_fails \/ Unanswered
                 \/ \E rc \in ReturnCode : finish_reject(rc)
            /\ Goto("calling") \/ Goto(place)
            /\ UNCHANGED <<inputs, accepted, saved>>
  PROVE  EchoInv'
<1>1. CASE app.accept /\ Accepts
  BY <1>1, AcceptsOne
<1>2. CASE /\ finish_accept_inspect \/ finish_accept_fails \/ Unanswered
                \/ \E rc \in ReturnCode : finish_reject(rc)
           /\ Goto("calling") \/ Goto(place)
           /\ UNCHANGED <<inputs, accepted, saved>>
  <2>1. UNCHANGED <<request, snapshot>>
    BY <1>2 DEF finish_accept_inspect, finish_accept_fails, finish_reject, Unanswered, vars, host
  <2>. QED
    BY <1>2, <2>1, GoesOn
<1>. QED
  BY <1>1, <1>2

\* It is given the request, or cannot read it.
LEMMA IsGiven ==
  ASSUME EchoInv, At("returned"), NEW place \in {"ended", "exited"},
         UNCHANGED <<vars, inputs, accepted, saved>>,
         LET r == read_request(finish.next_request_type)
         IN  app' = IF r.rc = "OK" THEN [app EXCEPT !.at = "echoing", !.given = r.payload.of, !.done = 0]
                                   ELSE [app EXCEPT !.at = place]
  PROVE  EchoInv'
<1>. DEFINE r == read_request(finish.next_request_type)
<1>1. r.rc = "OK" => r.payload.of = rx
  BY DEF read_request, read_advance_state, read_inspect_state, get_rx
<1>2. app' = IF r.rc = "OK" THEN [app EXCEPT !.at = "echoing", !.given = r.payload.of, !.done = 0]
                            ELSE [app EXCEPT !.at = place]
  OBVIOUS
<1>. HIDE DEF r
<1>3. CASE r.rc = "OK"
  <2>1. app' = [app EXCEPT !.at = "echoing", !.given = rx, !.done = 0]
    BY <1>1, <1>2, <1>3
  <2>2. /\ app'.at = "echoing" /\ app'.given = rx /\ app'.program = app.program
        /\ app'.missed = app.missed /\ AppShape(app')
    BY <2>1 DEF EchoInv, StageInv, AppShape
  <2>3. StageInv'
    BY <2>2 DEF EchoInv, StageInv, At, vars, host
  <2>. QED
    BY <2>2, <2>3, NothingAccepted DEF EchoInv, vars, host
<1>4. CASE r.rc # "OK"
  BY <1>2, <1>4, GoesOn DEF Goto, vars, host
<1>. QED
  BY <1>3, <1>4

\* It makes a copy, or misses one.
LEMMA MakesCopy ==
  ASSUME EchoInv, At("echoing"), UNCHANGED <<request, snapshot, inputs, accepted, saved>>,
         NEW done, NEW missed, app.missed => missed,
         app' = [app EXCEPT !.done = done, !.missed = missed]
  PROVE  EchoInv'
<1>1. /\ app'.at = "echoing" /\ app'.given = app.given /\ app'.program = app.program
      /\ app'.missed = missed /\ AppShape(app')
  BY DEF EchoInv, StageInv, AppShape, At
<1>2. StageInv'
  BY <1>1 DEF EchoInv, StageInv, At
<1>. QED
  BY <1>1, <1>2, NothingAccepted DEF EchoInv

\* It decides on the request.
LEMMA Decides ==
  ASSUME EchoInv, At("echoing"), UNCHANGED <<vars, inputs, accepted, saved>>,
         NEW rejected \in BOOLEAN, NEW thrown \in BOOLEAN,
         thrown => app.given.type = "advance",
         app.given.type = "advance" => (Index = Reject => rejected) /\ (Index = Exception => thrown),
         app' = [app EXCEPT !.accept = ~rejected, !.at = IF thrown THEN "throwing" ELSE "finishing"]
  PROVE  EchoInv'
<1>1. /\ app'.at = (IF thrown THEN "throwing" ELSE "finishing") /\ app'.accept = ~rejected
      /\ app'.program = app.program /\ app'.missed = app.missed /\ AppShape(app')
  BY DEF EchoInv, StageInv, AppShape
<1>2. app.given.type = request.type
  BY DEF EchoInv, StageInv
<1>3. UNCHANGED <<inputs, request, accepted, saved, snapshot>>
  BY DEF vars, host
<1>4. ASSUME thrown PROVE StageInv'
  <2>1. app'.at = "throwing" /\ (app'.accept => Index # Reject)
    BY <1>1, <1>4
  <2>. QED
    BY <1>1, <1>3, <2>1 DEF EchoInv, StageInv, At, Index
<1>5. ASSUME ~thrown PROVE StageInv'
  <2>1. /\ app'.at = "finishing"
        /\ app'.accept /\ request.type = "advance" => Index # Reject /\ Index # Exception
    BY <1>1, <1>2, <1>5
  <2>. QED
    BY <1>1, <1>3, <2>1 DEF EchoInv, StageInv, At, Index, MayAccept
<1>. QED
  BY <1>1, <1>3, <1>4, <1>5, NothingAccepted DEF EchoInv

\* Its exception is refused, and it goes on.
LEMMA GoesOnRefused ==
  ASSUME EchoInv, At("throwing"), Runs("ioctl-echo-loop"),
         UNCHANGED <<request, snapshot, inputs, accepted, saved>>,
         app' = [app EXCEPT !.at = "finishing", !.missed = TRUE]
  PROVE  EchoInv'
<1>1. /\ app'.at = "finishing" /\ app'.accept = app.accept /\ app'.program = app.program
      /\ app'.missed = TRUE /\ AppShape(app')
  BY DEF EchoInv, StageInv, AppShape
<1>2. app.accept => Index # Reject
  BY DEF EchoInv, StageInv
<1>3. StageInv'
  BY <1>1, <1>2 DEF EchoInv, StageInv, At, Index, MayAccept, Runs
<1>. QED
  BY <1>1, <1>3, NothingAccepted DEF EchoInv

-----------------------------------------------------------------------------
(* The steps.                                                              *)

LEMMA StartsSteps ==
  ASSUME EchoInv, starts
  PROVE  EchoInv'
<1>1. UNCHANGED <<inputs, accepted, saved, snapshot, request>> /\ UNCHANGED vars
  BY DEF starts, cmt_rollup_init, start_fails, vars, host
<1>2. CASE cmt_rollup_init
  BY <1>1, <1>2, Begins DEF cmt_rollup_init
<1>3. CASE start_fails
  BY <1>1, <1>3, GoesOn DEF start_fails
<1>. QED
  BY <1>2, <1>3 DEF starts

\* A call that makes an output or a report leaves the request where it is.
LEMMA EmitKeeps ==
  ASSUME NEW payload, NEW rc, Emit(payload, rc)
  PROVE  UNCHANGED <<request, snapshot>>
BY DEF Emit, emit_output, cmt_rollup_emit_report, vars, host

LEMMA LoopSteps ==
  ASSUME EchoInv, loop
  PROVE  EchoInv'
<1>1. CASE handle_request
  BY <1>1, IsGiven DEF handle_request
<1>2. CASE write_copy
  <2>1. PICK rc \in ReturnCode :
          /\ Emit(rx.payload, rc)
          /\ app' = IF rc = "OK" THEN [app EXCEPT !.done = @ + 1] ELSE [app EXCEPT !.at = "ended"]
    BY <1>2 DEF write_copy
  <2>2. UNCHANGED <<request, snapshot, inputs, accepted, saved>> /\ At("echoing")
    BY <1>2, <2>1, EmitKeeps DEF write_copy
  <2>3. CASE rc = "OK"
    <3>1. app' = [app EXCEPT !.done = app.done + 1, !.missed = app.missed]
      BY <2>1, <2>3 DEF EchoInv, StageInv, AppShape
    <3>. QED
      BY <2>2, <3>1, MakesCopy
  <2>4. CASE rc # "OK"
    BY <2>1, <2>2, <2>4, GoesOn DEF Goto
  <2>. QED
    BY <2>3, <2>4
<1>3. CASE main_decides
  <2>. DEFINE advance == app.given.type = "advance"
              rejected == (IF advance THEN Index = Reject ELSE RejectInspects)
              thrown == (advance /\ Index = Exception)
  <2>1. /\ app' = [app EXCEPT !.accept = ~rejected, !.at = IF thrown THEN "throwing" ELSE "finishing"]
        /\ At("echoing") /\ UNCHANGED <<vars, inputs, accepted, saved>>
    BY <1>3 DEF main_decides
  <2>2. /\ rejected \in BOOLEAN /\ thrown \in BOOLEAN
        /\ thrown => app.given.type = "advance"
        /\ app.given.type = "advance" => (Index = Reject => rejected) /\ (Index = Exception => thrown)
    BY InspectsAssumption
  <2>. HIDE DEF rejected, thrown
  <2>. QED
    BY <2>1, <2>2, Decides
<1>4. CASE main_throws
  <2>1. PICK payload \in Payload, rc \in ReturnCode :
          /\ cmt_rollup_emit_exception(payload, rc)
          /\ app' = IF rc = "stopped" THEN [app EXCEPT !.at = "calling"]
                    ELSE [app EXCEPT !.at = "finishing", !.missed = TRUE]
    BY <1>4 DEF main_throws
  <2>2. UNCHANGED <<request, snapshot, inputs, accepted, saved>> /\ At("throwing")
    BY <1>4, <2>1 DEF main_throws, cmt_rollup_emit_exception, stop, host
  <2>3. CASE rc = "stopped"
    BY <2>1, <2>2, <2>3, GoesOn DEF Goto
  <2>4. CASE rc # "stopped"
    BY <2>1, <2>2, <2>4, GoesOnRefused DEF loop
  <2>. QED
    BY <2>3, <2>4
<1>5. CASE finish_request
  BY <1>5, Finishes DEF finish_request
<1>. QED
  BY <1>1, <1>2, <1>3, <1>4, <1>5 DEF loop

LEMMA DappSteps ==
  ASSUME EchoInv, dapp
  PROVE  EchoInv'
<1>1. CASE start
  <2>1. UNCHANGED <<vars, inputs, accepted, saved>> /\ UNCHANGED <<request, snapshot>>
    BY <1>1 DEF start, vars, host
  <2>2. CASE Goto("finishing")
    BY <1>1, <2>1, <2>2, Begins DEF start
  <2>3. CASE Goto("exited")
    BY <2>1, <2>3, GoesOn
  <2>. QED
    BY <1>1, <2>2, <2>3 DEF start
<1>2. CASE receive_request
  BY <1>2, IsGiven DEF receive_request
<1>3. CASE send_copy
  <2>1. At("echoing") /\ UNCHANGED <<inputs, accepted, saved>>
    BY <1>3 DEF send_copy
  <2>2. CASE \E rc \in ReturnCode :
               /\ Emit(app.given.payload, rc)
               /\ app' = [app EXCEPT !.done = @ + 1, !.missed = @ \/ rc # "OK"]
    <3>1. PICK rc \in ReturnCode :
            /\ Emit(app.given.payload, rc)
            /\ app' = [app EXCEPT !.done = @ + 1, !.missed = @ \/ rc # "OK"]
      BY <2>2
    <3>. DEFINE done == app.done + 1
                missed == (app.missed \/ rc # "OK")
    <3>2. app' = [app EXCEPT !.done = done, !.missed = missed] /\ (app.missed => missed)
      BY <3>1
    <3>3. UNCHANGED <<request, snapshot>>
      BY <3>1, EmitKeeps
    <3>. HIDE DEF done, missed
    <3>. QED
      BY <2>1, <3>2, <3>3, MakesCopy
  <2>3. CASE Unanswered /\ app' = [app EXCEPT !.done = @ + 1, !.missed = TRUE]
    <3>. DEFINE done == app.done + 1
                missed == TRUE
    <3>1. app' = [app EXCEPT !.done = done, !.missed = missed] /\ (app.missed => missed)
      BY <2>3
    <3>2. UNCHANGED <<request, snapshot>>
      BY <2>3 DEF Unanswered, vars, host
    <3>. HIDE DEF done, missed
    <3>. QED
      BY <2>1, <3>1, <3>2, MakesCopy
  <2>. QED
    BY <1>3, <2>2, <2>3 DEF send_copy
<1>4. CASE decide
  <2>. DEFINE advance == app.given.type = "advance"
              rejected == (IF advance THEN IsNth(Reject) ELSE RejectInspects)
              thrown == (advance /\ IsNth(Exception))
  <2>1. /\ app' = [app EXCEPT !.accept = ~rejected, !.at = IF thrown THEN "throwing" ELSE "finishing"]
        /\ At("echoing") /\ UNCHANGED <<vars, inputs, accepted, saved>>
    BY <1>4 DEF decide
  <2>2. (Index = Reject => IsNth(Reject)) /\ (Index = Exception => IsNth(Exception))
    BY IntAssumption, NthAssumption DEF IsNth
  <2>3. /\ rejected \in BOOLEAN /\ thrown \in BOOLEAN
        /\ thrown => app.given.type = "advance"
        /\ app.given.type = "advance" => (Index = Reject => rejected) /\ (Index = Exception => thrown)
    BY <2>2, InspectsAssumption DEF IsNth
  <2>. HIDE DEF rejected, thrown
  <2>. QED
    BY <2>1, <2>3, Decides
<1>5. CASE throw_exception \/ dapp_exited
  <2>1. UNCHANGED <<inputs, accepted, saved, snapshot, request>>
    BY <1>5 DEF throw_exception, dapp_exited, cmt_rollup_emit_exception, stop, Unanswered, vars, host
  <2>2. Goto("calling") \/ Goto("exited") \/ Goto("ended")
    BY <1>5 DEF throw_exception, dapp_exited, Goto
  <2>. QED
    BY <2>1, <2>2, GoesOn
<1>6. CASE send_finish_request
  BY <1>6, Finishes DEF send_finish_request
<1>. QED
  BY <1>1, <1>2, <1>3, <1>4, <1>5, <1>6 DEF dapp

LEMMA HostSteps ==
  ASSUME EchoInv, host_next
  PROVE  EchoInv'
<1>1. CASE \E req \in Request : finish_resumes(req)
  <2>1. PICK req \in Request : finish_resumes(req)
    BY <1>1
  <2>2. /\ app'.at = "returned" /\ app'.program = app.program /\ app'.missed = app.missed
        /\ AppShape(app')
    BY <2>1 DEF EchoInv, StageInv, AppShape, finish_resumes, Goto
  <2>3. inputs' \in Nat /\ request' = req /\ rx' = req /\ UNCHANGED <<accepted, saved, snapshot>>
    BY <2>1 DEF EchoInv, StageInv, finish_resumes, finish_returns
  <2>4. StageInv'
    BY <2>2, <2>3 DEF StageInv, At
  <2>5. AcceptedInv'
    BY <2>2, <2>3 DEF EchoInv, AcceptedInv, NthNotAccepted, Runs
  <2>. QED
    BY <2>4, <2>5 DEF EchoInv
<1>2. CASE put_back
  <2>1. /\ snapshot.taken /\ app' = saved.app
        /\ UNCHANGED <<inputs, accepted, saved, snapshot, request>>
    BY <1>2 DEF put_back, host_revert
  <2>2. /\ app'.at = "calling" /\ AppShape(app') /\ app'.program = app.program
    BY <2>1 DEF EchoInv, AcceptedInv
  <2>3. StageInv'
    BY <2>1, <2>2 DEF EchoInv, StageInv, At
  <2>4. AcceptedInv'
    BY <2>1, <2>2 DEF EchoInv, AcceptedInv, NthNotAccepted, Runs
  <2>. QED
    BY <2>3, <2>4 DEF EchoInv
<1>3. CASE host_gives_up /\ UNCHANGED echo
  BY <1>3 DEF host_gives_up, EchoInv, StageInv, AcceptedInv, NthNotAccepted, MayAccept,
     Runs, At, Index, Running, vars, guest, host, echo
<1>. QED
  BY <1>1, <1>2, <1>3 DEF host_next

LEMMA InitEchoInv == InitEcho => EchoInv
<1>. SUFFICES ASSUME InitEcho PROVE EchoInv
  OBVIOUS
<1>1. AppShape(app) /\ app.at = "starting"
  BY DEF InitEcho, AppShape, Start
<1>2. StageInv
  BY <1>1 DEF InitEcho, StageInv, At, Init, Running
<1>3. AcceptedInv
  BY EmptySeq DEF InitEcho, AcceptedInv, NthNotAccepted, Init, NoSnapshot
<1>. QED
  BY <1>2, <1>3 DEF EchoInv

LEMMA NextEchoInv == EchoInv /\ [NextApps]_varsEcho => EchoInv'
<1>. SUFFICES ASSUME EchoInv, [NextApps]_varsEcho PROVE EchoInv'
  OBVIOUS
<1>1. CASE NextApps
  BY <1>1, StartsSteps, LoopSteps, DappSteps, HostSteps DEF NextApps
<1>2. CASE UNCHANGED varsEcho
  BY <1>2 DEF EchoInv, StageInv, AcceptedInv, NthNotAccepted, MayAccept, Runs, At, Index,
     Running, varsEcho, vars, guest, host, echo
<1>. QED
  BY <1>1, <1>2

-----------------------------------------------------------------------------
\* Neither application accepts the input it was told to reject, and an input
\* it was told to throw on only ioctl-echo-loop does, once its exception was
\* refused: through machines put back, whose program forgets what it decided
\* (ioctl-echo-loop.c main, echo-dapp main.rs).
THEOREM NthCorrect == FairSpecApps => []NthNotAccepted
<1>1. EchoInv => NthNotAccepted
  BY DEF EchoInv, AcceptedInv
<1>. QED
  BY InitEchoInv, NextEchoInv, <1>1, PTL DEF FairSpecApps

-----------------------------------------------------------------------------
(* What is made of the accepted inputs.                                    *)

\* A set of naturals that is not empty has a least element.
LEMMA LeastElement ==
  ASSUME NEW S \in SUBSET Nat, S # {}
  PROVE  \E m \in S : \A k \in S : m <= k
<1>1. PICK m \in S : \A k \in S : ~(<<k, m>> \in OpToRel(<, Nat))
  BY WFMin, NatLessThanWellFounded
<1>2. \A k \in S : ~(k < m)
  BY <1>1 DEF OpToRel
<1>. QED
  BY <1>2

\* What holds of 0, and of n + 1 with n, holds up to m.
LEMMA UpTo ==
  ASSUME NEW m \in Nat, NEW S, 0 \in S, \A n \in 0..(m - 1) : n \in S => n + 1 \in S
  PROVE  \A n \in 0..m : n \in S
<1>. DEFINE Not == {n \in 0..m : n \notin S}
<1>. SUFFICES ASSUME Not # {} PROVE FALSE
  OBVIOUS
<1>1. PICK n \in Not : \A k \in Not : n <= k
  <2>1. Not \in SUBSET Nat
    OBVIOUS
  <2>. HIDE DEF Not
  <2>. QED
    BY <2>1, LeastElement
<1>2. n # 0 /\ n \notin S /\ n \in 0..m
  BY <1>1
<1>3. n - 1 \in 0..(m - 1) /\ n - 1 \notin Not
  BY <1>1, <1>2
<1>4. n - 1 \in S
  BY <1>3
<1>. QED
  BY <1>2, <1>3, <1>4

AndEchoOf(echoes, payload) == echoes \o EchoOf(payload)

\* Echoes, of any inputs.
EchoesOf(s) ==
  LET echoes[i \in 0..Len(s)] ==
        IF i = 0 THEN <<>> ELSE AndEchoOf(echoes[i - 1], s[i].payload)
  IN  echoes[Len(s)]

\* The echoes of the first inputs.
Sums(f, s) ==
  /\ f[0] = <<>>
  /\ \A i \in 1..Len(s) : f[i] = AndEchoOf(f[i - 1], s[i].payload)

LEMMA EchoesAreSum ==
  ASSUME NEW s, Len(s) \in Nat
  PROVE  \E f : Sums(f, s) /\ EchoesOf(s) = f[Len(s)]
<1>. DEFINE n == Len(s)
            To(f, m) == f = [i \in 0..m |-> IF i = 0 THEN <<>> ELSE AndEchoOf(f[i - 1], s[i].payload)]
            S == {m \in 0..n : \E f : To(f, m)}
<1>1. 0 \in S
  <2>1. To([i \in 0..0 |-> <<>>], 0)
    OBVIOUS
  <2>. HIDE DEF To
  <2>. QED
    BY <2>1
<1>2. ASSUME NEW m \in 0..(n - 1), m \in S PROVE m + 1 \in S
  <2>1. PICK f : To(f, m)
    BY <1>2
  <2>. DEFINE g == [i \in 0..(m + 1) |-> IF i = m + 1 THEN AndEchoOf(f[i - 1], s[i].payload) ELSE f[i]]
  <2>2. To(g, m + 1)
    BY <2>1
  <2>. HIDE DEF To
  <2>. QED
    BY <2>2
<1>. HIDE DEF To
<1>3. \E f : To(f, n)
  <2>1. n \in Nat
    OBVIOUS
  <2>. HIDE DEF S, n
  <2>2. \A m \in 0..n : m \in S
    BY <1>1, <1>2, <2>1, UpTo
  <2>3. n \in S
    BY <2>1, <2>2
  <2>. QED
    BY <2>3 DEF S
<1>. DEFINE sum == CHOOSE f : To(f, n)
<1>4. EchoesOf(s) = sum[n]
  BY DEF EchoesOf, To
<1>5. To(sum, n)
  BY <1>3
<1>. HIDE DEF sum
<1>6. Sums(sum, s)
  <2>. DEFINE g == [i \in 0..n |-> IF i = 0 THEN <<>> ELSE AndEchoOf(sum[i - 1], s[i].payload)]
  <2>1. sum = g
    BY <1>5 DEF To
  <2>2. g[0] = <<>> /\ \A i \in 1..n : g[i] = AndEchoOf(sum[i - 1], s[i].payload)
    OBVIOUS
  <2>. HIDE DEF g
  <2>. QED
    BY <2>1, <2>2 DEF Sums
<1>. QED
  BY <1>4, <1>6

LEMMA NoEchoes == EchoesOf(<<>>) = <<>>
<1>1. Len(<<>>) = 0 /\ Len(<<>>) \in Nat
  OBVIOUS
<1>2. PICK f : Sums(f, <<>>) /\ EchoesOf(<<>>) = f[Len(<<>>)]
  BY <1>1, EchoesAreSum
<1>. QED
  BY <1>1, <1>2 DEF Sums

\* One more input adds its own.
LEMMA EchoesOfOneMore ==
  ASSUME NEW S, NEW s \in Seq(S), NEW e \in S
  PROVE  EchoesOf(Append(s, e)) = AndEchoOf(EchoesOf(s), e.payload)
<1>. DEFINE t == Append(s, e)
            n == Len(s)
<1>1. /\ t \in Seq(S) /\ Len(t) = n + 1 /\ t[n + 1] = e /\ n \in Nat
      /\ \A i \in 1..n : t[i] = s[i]
  BY AppendProperties
<1>. HIDE DEF t
<1>2. PICK f : Sums(f, s) /\ EchoesOf(s) = f[n]
  BY EchoesAreSum
<1>3. PICK g : Sums(g, t) /\ EchoesOf(t) = g[n + 1]
  <2>1. Len(t) \in Nat
    BY <1>1
  <2>. QED
    BY <1>1, <2>1, EchoesAreSum
<1>. DEFINE Same == {i \in 0..n : g[i] = f[i]}
<1>4. 0 \in Same
  BY <1>1, <1>2, <1>3 DEF Sums
<1>5. ASSUME NEW i \in 0..(n - 1), i \in Same PROVE i + 1 \in Same
  <2>1. i + 1 \in 1..n /\ i + 1 - 1 = i /\ i + 1 \in 1..Len(t)
    BY <1>1
  <2>2. f[i + 1] = AndEchoOf(f[i], s[i + 1].payload)
    BY <1>2, <2>1 DEF Sums
  <2>3. g[i + 1] = AndEchoOf(g[i], t[i + 1].payload)
    BY <1>3, <2>1 DEF Sums
  <2>. QED
    BY <1>1, <1>5, <2>1, <2>2, <2>3
<1>6. g[n] = f[n]
  <2>. HIDE DEF Same, n
  <2>1. \A i \in 0..n : i \in Same
    BY <1>1, <1>4, <1>5, UpTo
  <2>2. n \in Same
    BY <1>1, <2>1
  <2>. QED
    BY <2>2 DEF Same
<1>7. g[n + 1] = AndEchoOf(g[n], e.payload)
  <2>1. n + 1 \in 1..Len(t) /\ n + 1 - 1 = n
    BY <1>1
  <2>. QED
    BY <1>1, <1>3, <2>1 DEF Sums
<1>. QED
  BY <1>2, <1>3, <1>6, <1>7 DEF t

LEMMA Concatenated ==
  ASSUME NEW S, NEW s \in Seq(S), NEW t \in Seq(S), NEW m, NEW n, Len(s) = m, Len(t) = n
  PROVE  /\ s \o t \in Seq(S) /\ Len(s \o t) = m + n
         /\ \A i \in 1..(m + n) : (s \o t)[i] = IF i <= m THEN s[i] ELSE t[i - m]
<1>1. s \o t \in Seq(S) /\ Len(s \o t) = Len(s) + Len(t)
  BY ConcatProperties
<1>2. \A i \in 1..(Len(s) + Len(t)) : (s \o t)[i] = IF i <= Len(s) THEN s[i] ELSE t[i - Len(s)]
  BY ConcatProperties
<1>. QED
  BY <1>1, <1>2

Kind == {"voucher", "notice", "report"}

\* The copies of a request.
LEMMA KindsFacts ==
  /\ Vouchers + Notices \in Nat
  /\ Len(Kinds("advance")) = Vouchers + Notices + Reports
  /\ \A i \in 1..(Vouchers + Notices) : Kinds("advance")[i] \in {"voucher", "notice"}
  /\ \A i \in (Vouchers + Notices + 1)..(Vouchers + Notices + Reports) : Kinds("advance")[i] = "report"
  /\ \A type : type # "advance" => /\ Len(Kinds(type)) = Reports
                                   /\ \A i \in 1..Reports : Kinds(type)[i] = "report"
<1>1. ASSUME NEW n \in Nat, NEW kind \in Kind
      PROVE  /\ Copies(n, kind) \in Seq(Kind) /\ Len(Copies(n, kind)) = n
             /\ \A i \in 1..n : Copies(n, kind)[i] = kind
  <2>. DEFINE s == Copies(n, kind)
  <2>1. s = [i \in 1..n |-> kind]
    BY DEF Copies
  <2>. HIDE DEF s
  <2>2. s \in Seq(Kind) /\ Len(s) = n /\ \A i \in 1..n : s[i] = kind
    BY <1>1, <2>1
  <2>. QED
    BY <2>2 DEF s
<1>. DEFINE v == Copies(Vouchers, "voucher")
            w == Copies(Notices, "notice")
            r == Copies(Reports, "report")
<1>2. /\ v \in Seq(Kind) /\ Len(v) = Vouchers /\ (\A i \in 1..Vouchers : v[i] = "voucher")
      /\ w \in Seq(Kind) /\ Len(w) = Notices /\ (\A i \in 1..Notices : w[i] = "notice")
      /\ r \in Seq(Kind) /\ Len(r) = Reports /\ (\A i \in 1..Reports : r[i] = "report")
  BY <1>1, CountsAssumption DEF Kind
<1>3. /\ Kinds("advance") = v \o w \o r
      /\ \A type : type # "advance" => Kinds(type) = r
  BY DEF Kinds
<1>. HIDE DEF v, w, r
<1>4. /\ v \o w \in Seq(Kind) /\ Len(v \o w) = Vouchers + Notices
      /\ \A i \in 1..(Vouchers + Notices) :
           (v \o w)[i] = IF i <= Vouchers THEN v[i] ELSE w[i - Vouchers]
  <2>1. v \in Seq(Kind) /\ Len(v) = Vouchers /\ w \in Seq(Kind) /\ Len(w) = Notices
    BY <1>2
  <2>. QED
    BY <2>1, Concatenated
<1>. DEFINE x == v \o w
            k == Vouchers + Notices
<1>5. /\ Len(x \o r) = k + Reports
      /\ \A i \in 1..(k + Reports) : (x \o r)[i] = IF i <= k THEN x[i] ELSE r[i - k]
  <2>1. x \in Seq(Kind) /\ Len(x) = k
    BY <1>4
  <2>2. r \in Seq(Kind) /\ Len(r) = Reports
    BY <1>2
  <2>. HIDE DEF x, k
  <2>. QED
    BY <2>1, <2>2, Concatenated
<1>6. k \in Nat /\ Vouchers \in Nat /\ Notices \in Nat /\ Reports \in Nat
  BY CountsAssumption
<1>7. \A i \in 1..k : x[i] \in {"voucher", "notice"}
  <2>. TAKE i \in 1..k
  <2>1. CASE i <= Vouchers
    <3>1. i \in 1..Vouchers
      BY <1>6, <2>1
    <3>. QED
      BY <1>2, <1>4, <2>1, <3>1
  <2>2. CASE ~(i <= Vouchers)
    <3>1. i - Vouchers \in 1..Notices
      BY <1>6, <2>2
    <3>. QED
      BY <1>2, <1>4, <2>2, <3>1
  <2>. QED
    BY <2>1, <2>2
<1>8. \A i \in 1..k : (x \o r)[i] \in {"voucher", "notice"}
  <2>1. \A i \in 1..k : i \in 1..(k + Reports) /\ i <= k
    BY <1>6
  <2>. HIDE DEF x, k
  <2>. QED
    BY <1>5, <1>7, <2>1
<1>9. \A i \in (k + 1)..(k + Reports) : (x \o r)[i] = "report"
  <2>1. \A i \in (k + 1)..(k + Reports) : i \in 1..(k + Reports) /\ ~(i <= k) /\ i - k \in 1..Reports
    BY <1>6
  <2>. HIDE DEF x, k
  <2>. QED
    BY <1>2, <1>5, <2>1
<1>10. /\ Len(Kinds("advance")) = k + Reports
       /\ \A i \in 1..k : Kinds("advance")[i] \in {"voucher", "notice"}
       /\ \A i \in (k + 1)..(k + Reports) : Kinds("advance")[i] = "report"
  <2>1. Kinds("advance") = x \o r
    BY <1>3
  <2>. HIDE DEF x, k
  <2>. QED
    BY <1>5, <1>8, <1>9, <2>1
<1>11. \A type : type # "advance" => /\ Len(Kinds(type)) = Reports
                                     /\ \A i \in 1..Reports : Kinds(type)[i] = "report"
  BY <1>2, <1>3
<1>. QED
  BY <1>6, <1>10, <1>11

-----------------------------------------------------------------------------
(* The second inductive invariant: what the host has of the copies.        *)

\* Of the first n copies of the request, those that are outputs.
Made(n) ==
  IF request.type # "advance" THEN 0
  ELSE IF n < Vouchers + Notices THEN n ELSE Vouchers + Notices

\* They are the outputs that are not settled.
Pending(n) ==
  /\ Len(outputs) = settled + Made(n)
  /\ \A i \in 1..Made(n) :
       outputs[settled + i] = [kind |-> Kinds("advance")[i], payload |-> request.payload]

\* The dapp has missed a copy.
Excused(a) == a.program = "echo-dapp" /\ a.missed

\* The request that is copied is the one that the host has sent.
GivenInv ==
  /\ app.at \in {"starting", "returned", "echoing", "throwing", "finishing"} => Running
  /\ At("returned") \/ At("echoing") => request \in Request /\ rx = request
  /\ At("echoing") => app.given = request /\ app.done \in 0..Len(Kinds(request.type))

PendingInv ==
  ~Excused(app) =>
    /\ At("starting") \/ At("returned") => Len(outputs) = settled
    /\ At("echoing") => Pending(app.done)
    /\ At("throwing") \/ At("finishing") => Pending(Vouchers + Notices)

\* The program in the saved machine may not have missed what the one that runs
\* has: it comes back without it.
EchoedInv ==
  /\ Excused(app) \/ Settled = Echoes
  /\ snapshot.taken => Excused(saved.app) \/ Settled = Echoes

CopyInv == EchoInv /\ LedgerInv /\ GivenInv /\ PendingInv /\ EchoedInv

CopyStep == GivenInv' /\ PendingInv' /\ EchoedInv'

LEMMA EchoesAre ==
  /\ Echoes = EchoesOf(accepted)
  /\ Echoes' = EchoesOf(accepted')
BY DEF Echoes, EchoesOf, AndEchoOf

\* What is settled, and what should be, stays.
LEMMA EchoedStays ==
  ASSUME CopyInv, UNCHANGED <<settled, accepted, saved, snapshot>>,
         \A i \in 1..settled : outputs'[i] = outputs[i],
         Excused(app) => Excused(app') \/ Settled = Echoes
  PROVE  EchoedInv'
<1>1. IInv /\ settled \in Nat
  BY Facts DEF CopyInv, LedgerInv
<1>2. \A i \in 1..settled : outputs[i] \in Output /\ outputs'[i] = outputs[i]
  BY <1>1, SettledType
<1>3. SubSeq(outputs, 1, settled) = SubSeq(outputs', 1, settled)
  BY <1>1, <1>2, SubSeqAgree
<1>4. Settled' = Settled
  BY <1>3 DEF Settled
<1>5. Echoes' = Echoes
  BY EchoesAre
<1>6. Excused(saved.app)' = Excused(saved.app)
  BY DEF Excused
<1>7. Excused(app)' = Excused(app')
  BY DEF Excused
<1>. QED
  BY <1>4, <1>5, <1>6, <1>7 DEF CopyInv, EchoedInv

\* Where the program stops, or ends, nothing is said of the copies.
LEMMA Leaves ==
  ASSUME CopyInv, NEW place \in {"calling", "ended", "exited"}, Goto(place),
         UNCHANGED <<settled, accepted, saved, snapshot>>,
         \A i \in 1..settled : outputs'[i] = outputs[i]
  PROVE  CopyStep
<1>1. app'.at = place /\ app'.program = app.program /\ app'.missed = app.missed
  BY DEF CopyInv, EchoInv, StageInv, AppShape, Goto
<1>2. GivenInv'
  BY <1>1 DEF GivenInv, At
<1>3. PendingInv'
  BY <1>1 DEF PendingInv, At
<1>4. EchoedInv'
  BY <1>1, EchoedStays DEF Excused
<1>. QED
  BY <1>2, <1>3, <1>4 DEF CopyStep

\* A copy that is made is one more output, or a report.
LEMMA EmitCopies ==
  ASSUME CopyInv, At("echoing"), ~Copied, NEW rc, Emit(request.payload, rc)
  PROVE  /\ UNCHANGED <<rx, request, settled, snapshot, yielded>>
         /\ \A i \in 1..settled : outputs'[i] = outputs[i]
         /\ app.done + 1 \in 0..Len(Kinds(request.type))
         /\ (rc = "OK" /\ Pending(app.done)) => \A n : n = app.done + 1 => Pending(n)'
<1>. DEFINE kinds == Kinds(request.type)
            k == app.done + 1
            o == [kind |-> kinds[k], payload |-> request.payload]
<1>1. request \in Request /\ app.given = request /\ app.done \in 0..Len(kinds)
  BY DEF CopyInv, GivenInv
<1>2. request.type \in {"advance", "inspect"} /\ request.payload \in Payload
  BY <1>1 DEF Request, RequestType
<1>3. Len(kinds) \in Nat /\ Vouchers + Notices \in Nat /\ Reports \in Nat
  BY KindsFacts, CountsAssumption
<1>4. app.done # Len(kinds)
  BY <1>1 DEF Copied
<1>5. k \in 1..Len(kinds) /\ app.done \in Nat
  <2>. HIDE DEF kinds
  <2>. QED
    BY <1>1, <1>3, <1>4
<1>6. IF kinds[k] = "report" THEN cmt_rollup_emit_report(request.payload, rc) ELSE emit_output(o, rc)
  BY <1>1 DEF Emit
<1>7. /\ outputs \in Seq(Output) /\ settled \in Nat /\ settled <= Len(outputs)
      /\ Len(outputs) \in Nat
  BY Facts DEF CopyInv, LedgerInv
<1>. HIDE DEF kinds
<1>8. CASE kinds[k] = "report"
  <2>1. UNCHANGED vars
    BY <1>6, <1>8 DEF cmt_rollup_emit_report
  <2>2. UNCHANGED <<rx, request, settled, snapshot, yielded, outputs>>
    BY <2>1 DEF vars, host
  <2>3. request.type = "advance" => k > Vouchers + Notices
    <3>1. request.type = "advance" => \A i \in 1..(Vouchers + Notices) : kinds[i] # "report"
      BY KindsFacts DEF kinds
    <3>. HIDE DEF k
    <3>2. request.type = "advance" => k \notin 1..(Vouchers + Notices)
      BY <1>8, <3>1
    <3>. QED
      BY <1>3, <1>5, <3>2
  <2>4. Made(app.done) = Made(k)
    BY <1>3, <1>5, <2>3 DEF Made
  <2>5. ASSUME Pending(app.done), NEW n, n = k PROVE Pending(n)'
    <3>. HIDE DEF k
    <3>1. Made(n)' = Made(app.done)
      BY <2>2, <2>4, <2>5 DEF Made
    <3>. QED
      BY <2>2, <2>5, <3>1 DEF Pending
  <2>. QED
    BY <1>3, <1>5, <2>2, <2>5 DEF kinds
<1>9. CASE kinds[k] # "report"
  <2>1. request.type = "advance" /\ k <= Vouchers + Notices
    <3>1. request.type # "advance" => Len(kinds) = Reports /\ \A i \in 1..Reports : kinds[i] = "report"
      BY KindsFacts DEF kinds
    <3>2. request.type = "advance" =>
            /\ Len(kinds) = Vouchers + Notices + Reports
            /\ \A i \in (Vouchers + Notices + 1)..(Vouchers + Notices + Reports) : kinds[i] = "report"
      BY KindsFacts DEF kinds
    <3>. HIDE DEF k
    <3>3. request.type = "advance"
      BY <1>5, <1>9, <3>1
    <3>4. k \notin (Vouchers + Notices + 1)..(Vouchers + Notices + Reports)
      BY <1>9, <3>2, <3>3
    <3>. QED
      BY <1>3, <1>5, <3>2, <3>3, <3>4
  <2>2. kinds[k] \in {"voucher", "notice"} /\ kinds = Kinds("advance")
    <3>1. k \in 1..(Vouchers + Notices)
      BY <1>3, <1>5, <2>1
    <3>. HIDE DEF k
    <3>. QED
      BY <2>1, <3>1, KindsFacts DEF kinds
  <2>3. o \in Output
    BY <1>2, <2>2 DEF Output, OutputKind
  <2>4. emit_output(o, rc)
    BY <1>6, <1>9
  <2>. HIDE DEF o
  <2>5. CASE UNCHANGED vars
    <3>1. rc # "OK"
      <4>1. ASSUME rc = "OK" PROVE outputs' = Append(outputs, o)
        BY <2>4, <4>1 DEF emit_output, refused
      <4>2. Len(Append(outputs, o)) # Len(outputs)
        <5>1. Len(Append(outputs, o)) = Len(outputs) + 1
          BY <1>7, <2>3, AppendProperties
        <5>. QED
          BY <1>7, <5>1
      <4>. QED
        BY <2>5, <4>1, <4>2 DEF vars, host
    <3>. QED
      BY <1>3, <1>5, <2>5, <3>1 DEF vars, host, kinds
  <2>6. CASE ~UNCHANGED vars
    <3>1. /\ outputs' = Append(outputs, o)
          /\ UNCHANGED <<rx, request, settled, snapshot, yielded>>
      BY <2>4, <2>6, EmitCases, Zenon
    <3>2. /\ Len(outputs') = Len(outputs) + 1 /\ outputs'[Len(outputs) + 1] = o
          /\ \A i \in 1..Len(outputs) : outputs'[i] = outputs[i]
      BY <1>7, <2>3, <3>1, AppendProperties
    <3>3. \A i \in 1..settled : outputs'[i] = outputs[i]
      BY <1>7, <3>2
    <3>4. Made(app.done) = app.done /\ Made(k) = k
      BY <1>3, <1>5, <2>1 DEF Made
    <3>5. ASSUME Pending(app.done), NEW n, n = k PROVE Pending(n)'
      <4>1. Made(n)' = k
        <5>. HIDE DEF k
        <5>. QED
          BY <3>1, <3>4, <3>5 DEF Made
      <4>2. Len(outputs) = settled + app.done
        BY <3>4, <3>5 DEF Pending
      <4>3. Len(outputs') = settled + k /\ outputs'[settled + k] = o
        <5>1. Len(outputs) + 1 = settled + k
          BY <1>5, <1>7, <4>2
        <5>. HIDE DEF k
        <5>. QED
          BY <3>2, <5>1
      <4>4. ASSUME NEW i \in 1..k
            PROVE  outputs'[settled + i] = [kind |-> Kinds("advance")[i], payload |-> request.payload]
        <5>1. CASE i = k
          <6>. HIDE DEF k
          <6>. QED
            BY <2>2, <4>3, <5>1 DEF o
        <5>2. CASE i # k
          <6>1. i \in 1..app.done /\ settled + i \in 1..Len(outputs)
            BY <1>5, <1>7, <4>2, <5>2
          <6>2. outputs[settled + i] = [kind |-> Kinds("advance")[i], payload |-> request.payload]
            <7>. HIDE DEF k
            <7>. QED
              BY <3>4, <3>5, <6>1 DEF Pending
          <6>. QED
            BY <3>2, <6>1, <6>2
        <5>. QED
          BY <5>1, <5>2
      <4>. HIDE DEF k
      <4>. QED
        <5>1. settled' = settled /\ request' = request
          BY <3>1
        <5>2. Len(outputs)' = settled' + Made(n)'
          BY <4>1, <4>3, <5>1
        <5>3. \A i \in 1..Made(n)' :
                outputs'[settled' + i] = [kind |-> Kinds("advance")[i], payload |-> request'.payload]
          BY <4>1, <4>4, <5>1
        <5>. QED
          BY <5>2, <5>3 DEF Pending
    <3>6. k \in 0..Len(Kinds(request.type))
      BY <1>3, <1>5 DEF kinds
    <3>7. rc = "OK" /\ Pending(app.done) => \A n : n = k => Pending(n)'
      BY <3>5
    <3>. QED
      BY <3>1, <3>3, <3>6, <3>7
  <2>. QED
    BY <2>5, <2>6
<1>. QED
  BY <1>8, <1>9

\* Making a copy is a call of the API.
LEMMA EmitIsCall ==
  ASSUME CopyInv, At("echoing"), ~Copied, NEW rc \in ReturnCode, Emit(request.payload, rc)
  PROVE  [Next]_vars
<1>. DEFINE kinds == Kinds(request.type)
            k == app.done + 1
            p == request.payload
<1>1. request \in Request /\ app.given = request /\ app.done \in 0..Len(kinds)
  BY DEF CopyInv, GivenInv
<1>2. p \in Payload
  BY <1>1 DEF Request
<1>3. k \in 1..Len(kinds)
  <2>1. app.done # Len(kinds)
    BY <1>1 DEF Copied
  <2>2. Len(kinds) \in Nat
    BY KindsFacts, CountsAssumption
  <2>. HIDE DEF kinds
  <2>. QED
    BY <1>1, <2>1, <2>2
<1>4. kinds[k] \in Kind
  <2>. HIDE DEF k
  <2>1. CASE request.type # "advance"
    BY <1>3, <2>1, KindsFacts DEF Kind
  <2>2. CASE request.type = "advance"
    <3>1. kinds = Kinds("advance")
      BY <2>2
    <3>. HIDE DEF kinds
    <3>2. k \in 1..(Vouchers + Notices) \/ k \in (Vouchers + Notices + 1)..(Vouchers + Notices + Reports)
      BY <1>3, <3>1, KindsFacts, CountsAssumption
    <3>. QED
      BY <3>1, <3>2, KindsFacts DEF Kind
  <2>. QED
    BY <2>1, <2>2
<1>5. IF kinds[k] = "report" THEN cmt_rollup_emit_report(p, rc)
      ELSE emit_output([kind |-> kinds[k], payload |-> p], rc)
  BY <1>1 DEF Emit
<1>. HIDE DEF kinds, k, p
<1>6. CASE kinds[k] = "report"
  BY <1>2, <1>5, <1>6 DEF Next
<1>7. CASE kinds[k] = "voucher"
  <2>1. cmt_rollup_emit_voucher(p, rc)
    BY <1>5, <1>7 DEF cmt_rollup_emit_voucher
  <2>. QED
    BY <1>2, <2>1 DEF Next
<1>8. CASE kinds[k] = "notice"
  <2>1. cmt_rollup_emit_notice(p, rc)
    BY <1>5, <1>8 DEF cmt_rollup_emit_notice
  <2>. QED
    BY <1>2, <2>1 DEF Next
<1>. QED
  BY <1>4, <1>6, <1>7, <1>8 DEF Kind

\* A copy is counted: it is made, or missed.
LEMMA Counts ==
  ASSUME CopyInv, At("echoing"),
         UNCHANGED <<yielded, rx, request, settled, accepted, saved, snapshot>>,
         \A i \in 1..settled : outputs'[i] = outputs[i],
         NEW done \in 0..Len(Kinds(request.type)), Excused(app) => Excused(app'),
         app' = [app EXCEPT !.done = done, !.missed = app'.missed],
         \/ Excused(app')
         \/ Pending(app.done) => Pending(done)'
  PROVE  CopyStep
<1>1. /\ app'.at = "echoing" /\ app'.given = app.given /\ app'.program = app.program
      /\ app'.done = done
  BY DEF CopyInv, EchoInv, StageInv, AppShape, At
<1>2. GivenInv'
  BY <1>1 DEF CopyInv, GivenInv, At, Running
<1>3. PendingInv'
  <2>1. SUFFICES ASSUME ~Excused(app)' PROVE Pending(app.done)'
    BY <1>1 DEF PendingInv, At
  <2>2. ~Excused(app') /\ ~Excused(app)
    BY <2>1 DEF Excused
  <2>3. Pending(done)'
    BY <2>2 DEF CopyInv, PendingInv
  <2>. QED
    BY <1>1, <2>3 DEF Pending, Made
<1>4. EchoedInv'
  BY EchoedStays
<1>. QED
  BY <1>2, <1>3, <1>4 DEF CopyStep

\* It is made, and the program may say that it is not.
LEMMA MakesOne ==
  ASSUME CopyInv, At("echoing"), ~Copied, NEW rc \in ReturnCode, Emit(request.payload, rc),
         UNCHANGED <<accepted, saved>>, Excused(app) => Excused(app'),
         app' = [app EXCEPT !.done = app.done + 1, !.missed = app'.missed],
         rc = "OK" \/ Excused(app')
  PROVE  CopyStep
<1>1. PICK done : done = app.done + 1
  OBVIOUS
<1>2. /\ UNCHANGED <<rx, request, settled, snapshot, yielded>>
      /\ \A i \in 1..settled : outputs'[i] = outputs[i]
      /\ done \in 0..Len(Kinds(request.type))
      /\ rc = "OK" /\ Pending(app.done) => Pending(done)'
  BY <1>1, EmitCopies
<1>3. app' = [app EXCEPT !.done = done, !.missed = app'.missed]
  BY <1>1
<1>. QED
  BY <1>2, <1>3, Counts

\* None is asked for.
LEMMA MissesCopy ==
  ASSUME CopyInv, At("echoing"), ~Copied, Runs("echo-dapp"), UNCHANGED <<vars, accepted, saved>>,
         app' = [app EXCEPT !.done = app.done + 1, !.missed = TRUE]
  PROVE  CopyStep
<1>1. PICK done : done = app.done + 1
  OBVIOUS
<1>. DEFINE kinds == Kinds(request.type)
<1>2. app.done \in 0..Len(kinds) /\ app.done # Len(kinds)
  BY DEF CopyInv, GivenInv, Copied
<1>3. Len(kinds) \in Nat
  BY KindsFacts, CountsAssumption
<1>. HIDE DEF kinds
<1>4. done \in 0..Len(kinds)
  BY <1>1, <1>2, <1>3
<1>5. /\ UNCHANGED <<yielded, rx, request, settled, accepted, saved, snapshot>>
      /\ \A i \in 1..settled : outputs'[i] = outputs[i]
  BY DEF vars, host
<1>6. app'.missed = TRUE /\ app' = [app EXCEPT !.done = done, !.missed = app'.missed]
  BY <1>1 DEF CopyInv, EchoInv, StageInv, AppShape
<1>7. done \in 0..Len(Kinds(request.type))
  BY <1>4 DEF kinds
<1>8. Excused(app')
  BY <1>6 DEF Excused, Runs, CopyInv, EchoInv, StageInv, AppShape
<1>. QED
  BY <1>5, <1>6, <1>7, <1>8, Counts
\* Before the first request nothing is pending.
LEMMA AsksFirst ==
  ASSUME CopyInv, At("starting"), UNCHANGED <<vars, accepted, saved>>, Goto("finishing")
  PROVE  CopyStep
<1>1. /\ app'.at = "finishing" /\ app'.program = app.program /\ app'.missed = app.missed
  BY DEF CopyInv, EchoInv, StageInv, AppShape, Goto
<1>2. /\ UNCHANGED <<yielded, rx, request, settled, outputs, snapshot>>
  BY DEF vars, host
<1>3. request.type # "advance" /\ Running
  BY DEF CopyInv, EchoInv, StageInv, NoMessage
<1>4. GivenInv'
  BY <1>1, <1>2, <1>3 DEF GivenInv, At, Running
<1>5. PendingInv'
  <2>1. SUFFICES ASSUME ~Excused(app)' PROVE Pending(Vouchers + Notices)'
    BY <1>1 DEF PendingInv, At
  <2>2. Len(outputs) = settled
    BY <1>1, <2>1 DEF CopyInv, PendingInv, Excused
  <2>3. settled \in Nat
    BY Facts DEF CopyInv, LedgerInv
  <2>4. Made(Vouchers + Notices)' = 0
    BY <1>2, <1>3 DEF Made
  <2>5. Len(outputs)' = settled' + Made(Vouchers + Notices)'
    BY <1>2, <2>2, <2>3, <2>4
  <2>. QED
    BY <2>4, <2>5 DEF Pending
<1>6. EchoedInv'
  BY <1>1, <1>2, EchoedStays DEF Excused
<1>. QED
  BY <1>4, <1>5, <1>6 DEF CopyStep

\* The host has what was made of the accepted request, and settles it.
LEMMA SettlesOne ==
  ASSUME CopyInv, At("finishing"), ~Excused(app), request \in Request, request.type = "advance",
         settled' = Len(outputs), UNCHANGED outputs,
         NEW e, e.payload = request.payload, NEW S, accepted \in Seq(S), e \in S,
         accepted' = Append(accepted, e)
  PROVE  Settled' = Echoes'
<1>. DEFINE m == Vouchers + Notices
            p == request.payload
            echo1 == EchoOf(p)
<1>1. m \in Nat /\ p \in Payload
  BY CountsAssumption DEF Request
<1>2. Made(m) = m
  BY <1>1 DEF Made
<1>3. Pending(m)
  BY DEF CopyInv, PendingInv
<1>4. echo1 = [i \in 1..m |-> [kind |-> Kinds("advance")[i], payload |-> p]]
  BY DEF EchoOf
<1>5. \A i \in 1..m : Kinds("advance")[i] \in OutputKind
  BY KindsFacts DEF OutputKind
<1>. HIDE DEF m
<1>6. /\ Len(outputs) = settled + m
      /\ \A i \in 1..m : outputs[settled + i] = echo1[i]
  BY <1>2, <1>3, <1>4 DEF Pending
<1>7. echo1 \in Seq(Output) /\ Len(echo1) = m
  <2>1. \A i \in 1..m : [kind |-> Kinds("advance")[i], payload |-> p] \in Output
    BY <1>1, <1>5 DEF Output
  <2>. HIDE DEF p, echo1
  <2>. QED
    BY <1>1, <1>4, <2>1
<1>. HIDE DEF echo1
<1>8. /\ Settled \in Seq(Output) /\ Len(Settled) = settled /\ settled \in Nat
      /\ \A i \in 1..settled : Settled[i] = outputs[i]
      /\ outputs \in Seq(Output)
  BY SettledType, Facts DEF CopyInv, LedgerInv
<1>. DEFINE both == Settled \o echo1
<1>9. /\ both \in Seq(Output) /\ Len(both) = settled + m
      /\ \A i \in 1..(settled + m) : both[i] = IF i <= settled THEN Settled[i] ELSE echo1[i - settled]
  BY <1>7, <1>8, Concatenated
<1>10. Settled' = outputs
  <2>1. Settled' = SubSeq(outputs, 1, Len(outputs))
    BY DEF Settled
  <2>. QED
    BY <1>8, <2>1
<1>. HIDE DEF both
<1>11. outputs = both
  <2>1. ASSUME NEW i \in 1..Len(outputs) PROVE outputs[i] = both[i]
    <3>1. i \in 1..(settled + m)
      BY <1>6, <2>1
    <3>2. CASE i <= settled
      <4>1. i \in 1..settled
        BY <1>8, <3>1, <3>2
      <4>. QED
        BY <1>8, <1>9, <3>1, <3>2, <4>1
    <3>3. CASE ~(i <= settled)
      <4>. DEFINE j == i - settled
      <4>1. j \in 1..m /\ settled + j = i
        BY <1>1, <1>8, <3>1, <3>3
      <4>2. both[i] = echo1[j]
        BY <1>9, <3>1, <3>3
      <4>. HIDE DEF j
      <4>. QED
        BY <1>6, <4>1, <4>2
    <3>. QED
      BY <3>2, <3>3
  <2>. QED
    BY <1>6, <1>8, <1>9, <2>1, SeqEqual
<1>12. Settled = EchoesOf(accepted)
  BY EchoesAre DEF CopyInv, EchoedInv
<1>13. EchoesOf(accepted') = AndEchoOf(EchoesOf(accepted), e.payload)
  BY EchoesOfOneMore
<1>14. AndEchoOf(EchoesOf(accepted), e.payload) = both
  BY <1>12 DEF AndEchoOf, both, echo1
<1>. QED
  BY <1>10, <1>11, <1>13, <1>14, EchoesAre

LEMMA SettlesAccepted ==
  ASSUME CopyInv, At("finishing"), Accepts
  PROVE  CopyStep
<1>1. /\ settled' = Len(outputs) /\ UNCHANGED <<outputs, request>> /\ Goto("calling")
      /\ saved' = [taken |-> TRUE, app |-> app']
      /\ accepted' = IF request.type = "advance"
                       THEN Append(accepted, [index |-> Index, payload |-> request.payload])
                       ELSE accepted
  BY DEF Accepts, finish_accept
<1>2. app'.at = "calling" /\ app'.program = app.program /\ app'.missed = app.missed
  BY <1>1 DEF CopyInv, EchoInv, StageInv, AppShape, Goto
<1>3. GivenInv' /\ PendingInv'
  BY <1>2 DEF GivenInv, PendingInv, At
<1>4. ASSUME ~Excused(app) PROVE Settled' = Echoes'
  <2>1. CASE request.type = "advance"
    <3>. DEFINE e == [index |-> Index, payload |-> request.payload]
    <3>1. request \in Request /\ Index \in Int
      BY <2>1 DEF CopyInv, EchoInv, StageInv, NoMessage, Index
    <3>2. e \in [index : Int, payload : Payload] /\ e.payload = request.payload
      BY <3>1 DEF Request
    <3>3. accepted \in Seq([index : Int, payload : Payload])
      BY DEF CopyInv, EchoInv, AcceptedInv
    <3>4. accepted' = Append(accepted, e)
      BY <1>1, <2>1
    <3>. HIDE DEF e
    <3>. QED
      BY <1>1, <1>4, <2>1, <3>1, <3>2, <3>3, <3>4, SettlesOne
  <2>2. CASE request.type # "advance"
    <3>1. Pending(Vouchers + Notices)
      BY <1>4 DEF CopyInv, PendingInv
    <3>2. settled \in Nat
      BY Facts DEF CopyInv, LedgerInv
    <3>3. Len(outputs) = settled
      BY <2>2, <3>1, <3>2 DEF Pending, Made
    <3>4. Settled' = Settled
      BY <1>1, <3>3 DEF Settled
    <3>5. Echoes' = Echoes
      BY <1>1, <2>2, EchoesAre
    <3>. QED
      BY <1>4, <3>4, <3>5 DEF CopyInv, EchoedInv
  <2>. QED
    BY <2>1, <2>2
<1>5. EchoedInv'
  <2>1. Excused(app)' = Excused(app) /\ Excused(saved.app)' = Excused(app)
    BY <1>1, <1>2 DEF Excused
  <2>. QED
    BY <1>4, <2>1 DEF EchoedInv
<1>. QED
  BY <1>3, <1>5 DEF CopyStep

\* The program asks for the next request, whatever it says of the last.
LEMMA AsksNext ==
  ASSUME CopyInv, At("finishing"), NEW place \in {"ended", "exited"},
         \/ Accepts
         \/ /\ finish_accept_inspect \/ finish_accept_fails \/ Unanswered
                 \/ \E rc \in ReturnCode : finish_reject(rc)
            /\ Goto("calling") \/ Goto(place)
            /\ UNCHANGED <<inputs, accepted, saved>>
  PROVE  CopyStep /\ [Next]_vars
<1>1. CASE Accepts
  <2>1. [Next]_vars
    BY <1>1 DEF Accepts, Next
  <2>. QED
    BY <1>1, <2>1, SettlesAccepted
<1>2. CASE /\ finish_accept_inspect \/ finish_accept_fails \/ Unanswered
                \/ \E rc \in ReturnCode : finish_reject(rc)
           /\ Goto("calling") \/ Goto(place)
           /\ UNCHANGED <<inputs, accepted, saved>>
  <2>1. UNCHANGED <<outputs, settled, snapshot>>
    BY <1>2 DEF finish_accept_inspect, finish_accept_fails, finish_reject, Unanswered, vars, host
  <2>2. [Next]_vars
    BY <1>2 DEF Next, Unanswered
  <2>3. \A i \in 1..settled : outputs'[i] = outputs[i]
    BY <2>1
  <2>. QED
    BY <1>2, <2>1, <2>2, <2>3, Leaves
<1>. QED
  BY <1>1, <1>2

\* It is given the request, none of whose copies is made yet.
LEMMA StartsCopying ==
  ASSUME CopyInv, At("returned"), NEW place \in {"ended", "exited"},
         UNCHANGED <<vars, inputs, accepted, saved>>,
         LET r == read_request(finish.next_request_type)
         IN  app' = IF r.rc = "OK" THEN [app EXCEPT !.at = "echoing", !.given = r.payload.of, !.done = 0]
                                   ELSE [app EXCEPT !.at = place]
  PROVE  CopyStep
<1>. DEFINE r == read_request(finish.next_request_type)
<1>1. r.rc = "OK" => r.payload.of = rx
  BY DEF read_request, read_advance_state, read_inspect_state, get_rx
<1>2. app' = IF r.rc = "OK" THEN [app EXCEPT !.at = "echoing", !.given = r.payload.of, !.done = 0]
                            ELSE [app EXCEPT !.at = place]
  OBVIOUS
<1>3. UNCHANGED <<yielded, rx, request, settled, outputs, snapshot>>
  BY DEF vars, host
<1>. HIDE DEF r
<1>4. CASE r.rc = "OK"
  <2>1. app' = [app EXCEPT !.at = "echoing", !.given = rx, !.done = 0]
    BY <1>1, <1>2, <1>4
  <2>2. /\ app'.at = "echoing" /\ app'.given = rx /\ app'.done = 0
        /\ app'.program = app.program /\ app'.missed = app.missed
    BY <2>1 DEF CopyInv, EchoInv, StageInv, AppShape
  <2>3. GivenInv'
    <3>1. Running /\ request \in Request /\ rx = request
      BY DEF CopyInv, GivenInv, At
    <3>2. 0 \in 0..Len(Kinds(request.type))
      BY KindsFacts, CountsAssumption
    <3>3. Running' /\ request' \in Request /\ rx' = request'
      BY <1>3, <3>1 DEF Running
    <3>4. app'.given = request' /\ app'.done \in 0..Len(Kinds(request'.type))
      BY <1>3, <2>2, <3>1, <3>2
    <3>5. (~At("returned"))' /\ At("echoing")'
      BY <2>2 DEF At
    <3>. QED
      BY <3>3, <3>4, <3>5 DEF GivenInv
  <2>4. PendingInv'
    <3>1. SUFFICES ASSUME ~Excused(app)' PROVE Pending(app.done)'
      BY <2>2 DEF PendingInv, At
    <3>2. Len(outputs) = settled
      BY <2>2, <3>1 DEF CopyInv, PendingInv, Excused
    <3>3. settled \in Nat
      BY Facts DEF CopyInv, LedgerInv
    <3>4. Made(app.done)' = 0
      BY <2>2, CountsAssumption DEF Made
    <3>5. Len(outputs)' = settled' + Made(app.done)'
      BY <1>3, <3>2, <3>3, <3>4
    <3>. QED
      BY <3>4, <3>5 DEF Pending
  <2>5. EchoedInv'
    BY <1>3, <2>2, EchoedStays DEF Excused
  <2>. QED
    BY <2>3, <2>4, <2>5 DEF CopyStep
<1>5. CASE r.rc # "OK"
  BY <1>2, <1>3, <1>5, Leaves DEF Goto
<1>. QED
  BY <1>4, <1>5

\* All the copies are made when it decides on the request, and stay when it
\* goes on from there.
LEMMA KeepsCopies ==
  ASSUME CopyInv, UNCHANGED <<yielded, rx, request, settled, outputs, accepted, saved, snapshot>>,
         NEW place \in {"throwing", "finishing"}, app'.at = place, app'.program = app.program,
         app.missed => app'.missed,
         \/ At("throwing")
         \/ At("echoing") /\ Copied
  PROVE  CopyStep
<1>1. GivenInv'
  BY DEF CopyInv, GivenInv, At, Running
<1>2. PendingInv'
  <2>1. SUFFICES ASSUME ~Excused(app)' PROVE Pending(Vouchers + Notices)'
    BY DEF PendingInv, At
  <2>2. ~Excused(app)
    BY <2>1 DEF Excused
  <2>3. CASE At("throwing")
    <3>1. Pending(Vouchers + Notices)
      BY <2>2, <2>3 DEF CopyInv, PendingInv
    <3>. QED
      BY <3>1 DEF Pending, Made
  <2>4. CASE At("echoing") /\ Copied
    <3>1. app.done = Len(Kinds(request.type)) /\ Pending(app.done)
      BY <2>2, <2>4 DEF CopyInv, GivenInv, PendingInv, Copied
    <3>2. Made(app.done) = Made(Vouchers + Notices)
      BY <3>1, KindsFacts, CountsAssumption DEF Made
    <3>3. Pending(Vouchers + Notices)
      BY <3>1, <3>2 DEF Pending
    <3>. QED
      BY <3>3 DEF Pending, Made
  <2>. QED
    BY <2>3, <2>4
<1>3. EchoedInv'
  BY EchoedStays DEF Excused
<1>. QED
  BY <1>1, <1>2, <1>3 DEF CopyStep

\* It raises an exception: the machine stops, or the call is refused.
LEMMA Throws ==
  ASSUME NEW payload \in Payload, NEW rc \in ReturnCode, cmt_rollup_emit_exception(payload, rc)
  PROVE  /\ UNCHANGED <<rx, request, settled, outputs, snapshot>> /\ [Next]_vars
         /\ rc # "stopped" => UNCHANGED yielded
<1>1. UNCHANGED <<rx, request, settled, outputs, snapshot>> /\ (rc # "stopped" => UNCHANGED yielded)
  BY DEF cmt_rollup_emit_exception, stop, host
<1>. QED
  BY <1>1 DEF Next

LEMMA LoopCopies ==
  ASSUME CopyInv, loop
  PROVE  CopyStep /\ [Next]_vars
<1>1. CASE handle_request
  BY <1>1, StartsCopying DEF handle_request
<1>2. CASE write_copy
  <2>1. PICK rc \in ReturnCode :
          /\ Emit(rx.payload, rc)
          /\ app' = IF rc = "OK" THEN [app EXCEPT !.done = @ + 1] ELSE [app EXCEPT !.at = "ended"]
    BY <1>2 DEF write_copy
  <2>2. At("echoing") /\ ~Copied /\ UNCHANGED <<accepted, saved>> /\ Emit(request.payload, rc)
    BY <1>2, <2>1 DEF write_copy, CopyInv, GivenInv
  <2>3. [Next]_vars
    BY <2>2, EmitIsCall
  <2>4. CASE rc = "OK"
    <3>1. app' = [app EXCEPT !.done = app.done + 1, !.missed = app.missed]
      BY <2>1, <2>4 DEF CopyInv, EchoInv, StageInv, AppShape
    <3>2. app'.missed = app.missed
      BY <3>1 DEF CopyInv, EchoInv, StageInv, AppShape
    <3>3. app' = [app EXCEPT !.done = app.done + 1, !.missed = app'.missed]
      BY <3>1, <3>2
    <3>4. Excused(app) => Excused(app')
      BY <3>1 DEF Excused, CopyInv, EchoInv, StageInv, AppShape
    <3>5. CopyStep
      BY <2>2, <2>4, <3>3, <3>4, MakesOne
    <3>. QED
      BY <2>3, <3>5
  <2>5. CASE rc # "OK"
    <3>1. Goto("ended")
      BY <2>1, <2>5 DEF Goto
    <3>2. UNCHANGED <<settled, snapshot>> /\ \A i \in 1..settled : outputs'[i] = outputs[i]
      BY <2>2, EmitCopies
    <3>. QED
      BY <2>2, <2>3, <3>1, <3>2, Leaves
  <2>. QED
    BY <2>4, <2>5
<1>3. CASE main_decides
  <2>1. /\ app'.at = "throwing" \/ app'.at = "finishing"
        /\ app'.program = app.program /\ app'.missed = app.missed
    BY <1>3 DEF main_decides, CopyInv, EchoInv, StageInv, AppShape
  <2>2. /\ UNCHANGED <<yielded, rx, request, settled, outputs, accepted, saved, snapshot>>
        /\ At("echoing") /\ Copied /\ UNCHANGED vars
    BY <1>3 DEF main_decides, vars, host
  <2>. QED
    BY <2>1, <2>2, KeepsCopies
<1>4. CASE main_throws
  <2>1. PICK payload \in Payload, rc \in ReturnCode :
          /\ cmt_rollup_emit_exception(payload, rc)
          /\ app' = IF rc = "stopped" THEN [app EXCEPT !.at = "calling"]
                    ELSE [app EXCEPT !.at = "finishing", !.missed = TRUE]
    BY <1>4 DEF main_throws
  <2>2. At("throwing") /\ UNCHANGED <<accepted, saved>>
    BY <1>4 DEF main_throws
  <2>3. /\ UNCHANGED <<rx, request, settled, outputs, snapshot>> /\ [Next]_vars
        /\ rc # "stopped" => UNCHANGED yielded
    BY <2>1, Throws
  <2>4. CASE rc = "stopped"
    <3>1. Goto("calling") /\ \A i \in 1..settled : outputs'[i] = outputs[i]
      BY <2>1, <2>3, <2>4 DEF Goto
    <3>. QED
      BY <2>2, <2>3, <3>1, Leaves
  <2>5. CASE rc # "stopped"
    <3>1. app'.at = "finishing" /\ app'.program = app.program /\ app'.missed = TRUE
      BY <2>1, <2>5 DEF CopyInv, EchoInv, StageInv, AppShape
    <3>. QED
      BY <2>2, <2>3, <2>5, <3>1, KeepsCopies
  <2>. QED
    BY <2>4, <2>5
<1>5. CASE finish_request
  BY <1>5, AsksNext DEF finish_request
<1>. QED
  BY <1>1, <1>2, <1>3, <1>4, <1>5 DEF loop

LEMMA StartsCopies ==
  ASSUME CopyInv, starts
  PROVE  CopyStep /\ [Next]_vars
<1>1. CASE cmt_rollup_init
  BY <1>1, AsksFirst DEF cmt_rollup_init
<1>2. CASE start_fails
  <2>1. UNCHANGED <<vars, settled, accepted, saved, snapshot, outputs>> /\ Goto("ended")
    BY <1>2 DEF start_fails, vars, host
  <2>. QED
    BY <2>1, Leaves
<1>. QED
  BY <1>1, <1>2 DEF starts
LEMMA DappCopies ==
  ASSUME CopyInv, dapp
  PROVE  CopyStep /\ [Next]_vars
<1>1. CASE start
  <2>1. /\ UNCHANGED <<vars, settled, accepted, saved, snapshot, outputs>>
        /\ At("starting") /\ (Goto("finishing") \/ Goto("exited"))
    BY <1>1 DEF start, vars, host
  <2>2. CASE Goto("finishing")
    BY <2>1, <2>2, AsksFirst
  <2>3. CASE Goto("exited")
    BY <2>1, <2>3, Leaves
  <2>. QED
    BY <2>1, <2>2, <2>3
<1>2. CASE receive_request
  BY <1>2, StartsCopying DEF receive_request
<1>3. CASE send_copy
  <2>1. At("echoing") /\ ~Copied /\ UNCHANGED <<accepted, saved>> /\ app.given = request
    BY <1>3 DEF send_copy, CopyInv, GivenInv
  <2>2. ASSUME NEW rc \in ReturnCode, Emit(app.given.payload, rc),
               app' = [app EXCEPT !.done = @ + 1, !.missed = @ \/ rc # "OK"]
        PROVE  CopyStep /\ [Next]_vars
    <3>1. Emit(request.payload, rc)
      BY <2>1, <2>2
    <3>2. /\ app'.missed = (app.missed \/ rc # "OK") /\ app'.program = app.program
          /\ app' = [app EXCEPT !.done = app.done + 1, !.missed = app'.missed]
      BY <2>2 DEF CopyInv, EchoInv, StageInv, AppShape
    <3>3. (Excused(app) => Excused(app')) /\ (rc = "OK" \/ Excused(app'))
      BY <1>3, <3>2 DEF dapp, Runs, Excused
    <3>4. CopyStep
      BY <2>1, <3>1, <3>2, <3>3, MakesOne
    <3>5. [Next]_vars
      BY <2>1, <3>1, EmitIsCall
    <3>. QED
      BY <3>4, <3>5
  <2>3. CASE Unanswered /\ app' = [app EXCEPT !.done = @ + 1, !.missed = TRUE]
    BY <2>1, <2>3, MissesCopy DEF dapp, Unanswered
  <2>. QED
    BY <1>3, <2>2, <2>3 DEF send_copy
<1>4. CASE decide
  <2>1. /\ app'.at = "throwing" \/ app'.at = "finishing"
        /\ app'.program = app.program /\ app'.missed = app.missed
    BY <1>4 DEF decide, CopyInv, EchoInv, StageInv, AppShape
  <2>2. /\ UNCHANGED <<yielded, rx, request, settled, outputs, accepted, saved, snapshot>>
        /\ At("echoing") /\ Copied /\ UNCHANGED vars
    BY <1>4 DEF decide, vars, host
  <2>. QED
    BY <2>1, <2>2, KeepsCopies
<1>5. CASE throw_exception \/ dapp_exited
  <2>1. UNCHANGED <<accepted, saved>> /\ (Goto("calling") \/ Goto("exited") \/ Goto("ended"))
    BY <1>5 DEF throw_exception, dapp_exited, Goto
  <2>2. \/ Unanswered
        \/ \E payload \in Payload, rc \in ReturnCode : cmt_rollup_emit_exception(payload, rc)
    BY <1>5 DEF throw_exception, dapp_exited
  <2>3. /\ UNCHANGED <<settled, outputs, snapshot>> /\ [Next]_vars
    <3>1. CASE Unanswered
      BY <3>1 DEF Unanswered, vars, host
    <3>2. CASE \E payload \in Payload, rc \in ReturnCode : cmt_rollup_emit_exception(payload, rc)
      BY <3>2, Throws
    <3>. QED
      BY <2>2, <3>1, <3>2
  <2>4. \A i \in 1..settled : outputs'[i] = outputs[i]
    BY <2>3
  <2>. QED
    BY <2>1, <2>3, <2>4, Leaves
<1>6. CASE send_finish_request
  BY <1>6, AsksNext DEF send_finish_request
<1>. QED
  BY <1>1, <1>2, <1>3, <1>4, <1>5, <1>6 DEF dapp

\* Nothing happens.
LEMMA CopiesStay ==
  ASSUME CopyInv, UNCHANGED <<vars, echo>>
  PROVE  CopyStep
<1>1. /\ UNCHANGED <<yielded, rx, request, settled, outputs, snapshot>>
      /\ UNCHANGED <<app, accepted, saved>>
  BY DEF vars, host, echo
<1>2. GivenInv'
  BY <1>1 DEF CopyInv, GivenInv, At, Running
<1>3. PendingInv'
  BY <1>1 DEF CopyInv, PendingInv, At, Excused, Pending, Made
<1>4. EchoedInv'
  BY <1>1, EchoedStays
<1>. QED
  BY <1>2, <1>3, <1>4 DEF CopyStep

\* The host sends a request once all outputs are settled, and puts back a
\* program that is in its finish.
LEMMA HostCopies ==
  ASSUME CopyInv, host_next
  PROVE  CopyStep /\ [Next]_vars
<1>1. CASE \E req \in Request : finish_resumes(req)
  <2>1. PICK req \in Request : finish_resumes(req)
    BY <1>1
  <2>2. /\ app'.at = "returned" /\ app'.program = app.program /\ app'.missed = app.missed
    BY <2>1 DEF CopyInv, EchoInv, StageInv, AppShape, finish_resumes, Goto
  <2>3. /\ yielded = "rx_accepted" /\ yielded' = "no" /\ request' = req /\ rx' = req
        /\ UNCHANGED <<outputs, settled, accepted, saved, snapshot>>
    BY <2>1 DEF finish_resumes, finish_returns
  <2>4. GivenInv'
    BY <2>2, <2>3 DEF GivenInv, At, Running
  <2>5. Len(outputs) = settled
    BY <2>3 DEF CopyInv, LedgerInv, BaseInv
  <2>6. PendingInv'
    BY <2>2, <2>3, <2>5 DEF PendingInv, At
  <2>7. EchoedInv'
    BY <2>2, <2>3, EchoedStays DEF Excused
  <2>8. [Next]_vars
    BY <2>1 DEF finish_resumes, Next
  <2>. QED
    BY <2>4, <2>6, <2>7, <2>8 DEF CopyStep
<1>2. CASE put_back
  <2>1. /\ snapshot.taken /\ app' = saved.app /\ outputs' = SubSeq(outputs, 1, settled)
        /\ UNCHANGED <<settled, accepted, saved, snapshot>>
    BY <1>2 DEF put_back, host_revert
  <2>2. app'.at = "calling"
    BY <2>1 DEF CopyInv, EchoInv, AcceptedInv
  <2>3. GivenInv' /\ PendingInv'
    BY <2>2 DEF GivenInv, PendingInv, At
  <2>4. \A i \in 1..settled : outputs'[i] = outputs[i]
    <3>1. IInv /\ Settled = outputs'
      BY <2>1 DEF CopyInv, LedgerInv, Settled
    <3>. QED
      BY <3>1, SettledType
  <2>5. Excused(app') \/ Settled = Echoes
    BY <2>1 DEF CopyInv, EchoedInv
  <2>6. EchoedInv'
    BY <2>1, <2>4, <2>5, EchoedStays
  <2>7. [Next]_vars
    BY <1>2 DEF put_back, Next
  <2>. QED
    BY <2>3, <2>6, <2>7 DEF CopyStep
<1>3. CASE host_gives_up /\ UNCHANGED echo
  <2>1. UNCHANGED <<vars, echo>>
    BY <1>3 DEF host_gives_up
  <2>. QED
    BY <2>1, CopiesStay
<1>. QED
  BY <1>1, <1>2, <1>3 DEF host_next

-----------------------------------------------------------------------------
\* The outputs the host has settled are all the copies of every accepted
\* input, in order, and nothing else, unless echo-dapp missed a copy: for any
\* numbers of copies, through failed calls, rejections, exceptions and machines
\* put back (ioctl-echo-loop.c main, echo-dapp main.rs, "Replicate input in n
\* vouchers").
THEOREM EchoesCorrect == FairSpecApps => []SettledAreEchoes
<1>1. InitEcho => CopyInv
  <2>. SUFFICES ASSUME InitEcho PROVE CopyInv
    OBVIOUS
  <2>1. LedgerInv
    BY InitLedgerInv DEF InitEcho
  <2>2. EchoInv
    BY InitEchoInv
  <2>3. /\ app.at = "starting" /\ outputs = <<>> /\ settled = 0 /\ accepted = <<>> /\ ~snapshot.taken
        /\ yielded = "no"
    BY DEF InitEcho, Start, Init, NoSnapshot
  <2>4. GivenInv /\ PendingInv
    BY <2>3 DEF GivenInv, PendingInv, At, Running
  <2>5. Settled = <<>>
    BY <2>3, SubSeqEmpty DEF Settled
  <2>6. Echoes = <<>>
    BY <2>3, EchoesAre, NoEchoes
  <2>7. EchoedInv
    BY <2>3, <2>5, <2>6 DEF EchoedInv
  <2>. QED
    BY <2>1, <2>2, <2>4, <2>7 DEF CopyInv
<1>2. CopyInv /\ [NextApps]_varsEcho => CopyInv'
  <2>. SUFFICES ASSUME CopyInv, [NextApps]_varsEcho PROVE CopyInv'
    OBVIOUS
  <2>1. EchoInv'
    BY NextEchoInv DEF CopyInv
  <2>2. CopyStep /\ [Next]_vars
    <3>1. CASE NextApps
      BY <3>1, StartsCopies, LoopCopies, DappCopies, HostCopies DEF NextApps
    <3>2. CASE UNCHANGED varsEcho
      BY <3>2, CopiesStay DEF varsEcho
    <3>. QED
      BY <3>1, <3>2
  <2>3. LedgerInv'
    BY <2>2, NextLedgerInv DEF CopyInv
  <2>. QED
    BY <2>1, <2>2, <2>3 DEF CopyInv, CopyStep
<1>3. CopyInv => SettledAreEchoes
  BY DEF CopyInv, EchoedInv, SettledAreEchoes, Excused, Runs
<1>. QED
  BY <1>1, <1>2, <1>3, PTL DEF FairSpecApps
=============================================================================

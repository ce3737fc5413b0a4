--------------------------------- MODULE Echo ---------------------------------
(***************************************************************************)
(* What the two echo applications share: ioctl-echo-loop (EchoLoop.tla)    *)
(* and echo-dapp (EchoDapp.tla).  Both copy each input to a number of      *)
(* vouchers, notices and reports, reject the nth input or raise an         *)
(* exception on it, and ask for the next one, in the machine of Rollup.tla.*)
(***************************************************************************)
EXTENDS Rollup

CONSTANTS
  Vouchers, Notices, Reports,    \* --vouchers, --notices, --reports
  Reject, Exception,             \* --reject, --exception, as unsigned numbers
  RejectInspects,                \* --reject-inspects
  IntValues,                     \* numbers an int holds, 2^32 in the code
  MaxInputs                      \* bound on the advances the host sends

ASSUME CountsAssumption == Vouchers \in Nat /\ Notices \in Nat /\ Reports \in Nat
ASSUME IntAssumption == IntValues \in Nat \ {0}
ASSUME NthAssumption == Reject \in 0..(IntValues - 1) /\ Exception \in 0..(IntValues - 1)
ASSUME InspectsAssumption == RejectInspects \in BOOLEAN

VARIABLES
  app,               \* which program, where it is, and its local variables
  inputs,            \* advances the host has sent: the index of the next one
  accepted,          \* history: the advances of accepted finishes
  saved              \* the program in the machine the host saved

echo == <<app, inputs, accepted, saved>>
varsEcho == <<vars, echo>>

\* done copies of the request given have been made; missed is history.
Start(program) ==
  [program |-> program, at |-> "starting", accept |-> TRUE, given |-> NoMessage, done |-> 0, missed |-> FALSE]

InitEcho ==
  /\ Init
  /\ app \in {Start("ioctl-echo-loop"), Start("echo-dapp")}
  /\ inputs = 0
  /\ accepted = <<>>
  /\ saved = NoSnapshot

Runs(program) == app.program = program
At(place) == app.at = place
Goto(place) == app' = [app EXCEPT !.at = place]

-----------------------------------------------------------------------------
(* The host.  The index of an input is part of it, and is used once.       *)

Index == inputs - 1

finish_resumes(req) ==
  /\ finish_returns(req)
  /\ req.type = "advance" => inputs < MaxInputs
  /\ inputs' = IF req.type = "advance" THEN inputs + 1 ELSE inputs
  /\ Goto("returned")
  /\ UNCHANGED <<accepted, saved>>

put_back == host_revert /\ app' = saved.app /\ UNCHANGED <<inputs, accepted, saved>>

\* An accepted finish: the machine is saved with the program in the call.
Accepts ==
  /\ finish_accept
  /\ Goto("calling")
  /\ saved' = [taken |-> TRUE, app |-> app']
  /\ accepted' = IF request.type = "advance"
                   THEN Append(accepted, [index |-> Index, payload |-> request.payload])
                   ELSE accepted
  /\ UNCHANGED inputs

host_next ==
  \/ \E req \in Request : finish_resumes(req)
  \/ put_back
  \/ host_gives_up /\ UNCHANGED echo

-----------------------------------------------------------------------------
(* Copies.                                                                 *)

Copies(n, kind) == [i \in 1..n |-> kind]

\* What is made of a request, in this order.
Kinds(type) ==
  IF type = "advance"
    THEN Copies(Vouchers, "voucher") \o Copies(Notices, "notice") \o Copies(Reports, "report")
    ELSE Copies(Reports, "report")

Copied == app.done = Len(Kinds(app.given.type))

\* The next copy is asked for.
Emit(payload, rc) ==
  LET kind == Kinds(app.given.type)[app.done + 1]
  IN  IF kind = "report" THEN cmt_rollup_emit_report(payload, rc)
      ELSE emit_output([kind |-> kind, payload |-> payload], rc)

-----------------------------------------------------------------------------
(* Correctness.                                                            *)

EchoOf(payload) ==
  [i \in 1..(Vouchers + Notices) |-> [kind |-> Kinds("advance")[i], payload |-> payload]]

\* What the accepted inputs should have left at the host.
Echoes ==
  LET echoes[i \in 0..Len(accepted)] ==
        IF i = 0 THEN <<>> ELSE echoes[i - 1] \o EchoOf(accepted[i].payload)
  IN  echoes[Len(accepted)]

\* "Replicate input in n vouchers", "in n notices" (the help of both): the
\* outputs the host has settled are all the copies of every accepted input, in
\* order, and nothing else, through failed calls, rejections, exceptions and
\* machines put back.  The dapp accepts an input without its copies if a post
\* failed: the client library does not report it (client.rs:43-58).
SettledAreEchoes == (Runs("echo-dapp") /\ app.missed) \/ Settled = Echoes

\* "Reject the nth input", "cause an exception on the nth input" (the help of
\* both): it is not accepted.  ioctl-echo-loop accepts an input whose
\* exception was refused (ioctl-echo-loop.c:203).
NthNotAccepted ==
  \A i \in DOMAIN accepted :
    /\ accepted[i].index # Reject
    /\ accepted[i].index = Exception => Runs("ioctl-echo-loop") /\ app.missed

\* The program does not stay with a request for ever: it finishes, stops the
\* machine otherwise, or ends.
Decided == At("returned") ~> (~Running \/ At("ended"))
=============================================================================

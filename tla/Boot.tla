--------------------------------- MODULE Boot ---------------------------------
(***************************************************************************)
(* From power on to power off: cartesi-init runs the entrypoint, which may *)
(* be rollup-init with rollup-http-server and the dapp under it, and then  *)
(* halts the machine (cartesi-init, rollup-init, xhalt.c, main.rs).        *)
(*                                                                         *)
(* A command leaves its status in $?, as a shell has it.  A dapp that runs *)
(* may end or run for ever.                                                *)
(***************************************************************************)
EXTENDS Naturals

CONSTANT Status      \* statuses that programs may end with, 0 among them
ASSUME StatusAssumption == Status \subseteq Nat /\ 0 \in Status

VARIABLES
  env,               \* what the machine was set up with
  at,                \* where cartesi-init, or what it runs, is
  status,            \* $?
  RC,
  server_ready,      \* Notify: whether it has been notified
  bound, rollup_fd,  \* the server: whether it listens, and has the device
  dapp,              \* dapp_process::run and its child
  power,             \* "on", or what ended the run, with a code
  ended              \* history: the status of the entrypoint

vars == <<env, at, status, RC, server_ready, bound, rollup_fd, dapp, power, ended>>
server == <<server_ready, bound, rollup_fd, dapp>>
shell == <<RC, power, ended>>

Environment ==
  [entrypoint : {"device tree", "arguments", "none"},
   workdir : BOOLEAN,     \* cd $WORKDIR works
   xhalt : BOOLEAN,       \* /usr/sbin/xhalt is there
   program : {"rollup-init", "other"},
   command : BOOLEAN,     \* a dapp command after the flags
   address : BOOLEAN,     \* the address parses
   device : BOOLEAN,      \* the device opens
   port : BOOLEAN]        \* the port is free

On == power.by = "nothing"
Halted(by, code) == power' = [by |-> by, code |-> code]

Init ==
  /\ env \in Environment
  /\ at = "boot" /\ status = 0 /\ RC = 0 /\ ended = 0
  /\ server_ready = FALSE /\ bound = FALSE /\ rollup_fd = FALSE /\ dapp = "waiting"
  /\ power = [by |-> "nothing", code |-> 0]

Serving == at \in {"create_server", "notify", "serve"}
Goto(from, to) == On /\ at = from /\ at' = to

\* The entrypoint is over, and its status is in $?.
Ends(code) == at' = "entrypoint over" /\ status' = code /\ ended' = code

-----------------------------------------------------------------------------
(* cartesi-init, up to the entrypoint.                                     *)

nothing_to_do ==
  /\ On /\ at = "boot" /\ env.entrypoint = "none"
  /\ Ends(0)
  /\ UNCHANGED <<env, RC, power, server>>

workdir_fails ==
  /\ On /\ at = "boot" /\ env.entrypoint # "none" /\ ~env.workdir
  /\ \E code \in Status \ {0} : Ends(code)
  /\ UNCHANGED <<env, RC, power, server>>

run_entrypoint ==
  /\ env.entrypoint # "none" /\ env.workdir
  /\ Goto("boot", env.program)
  /\ UNCHANGED <<env, status, server, shell>>

other_program_ends ==
  /\ On /\ at = "other"
  /\ \E code \in Status : Ends(code)
  /\ UNCHANGED <<env, RC, power, server>>

-----------------------------------------------------------------------------
(* rollup-http-server, from main to the service.                           *)

server_ends(code) ==
  /\ at' = "server over" /\ status' = code
  /\ bound' = FALSE /\ rollup_fd' = FALSE
  /\ UNCHANGED <<env, server_ready, dapp, shell>>

\* An Err from main is status 1; unwrap and expect panic, with status 101.
server_main ==
  /\ On /\ at = "rollup-init"
  /\ IF ~env.command THEN server_ends(1)
     ELSE IF ~env.address \/ ~env.device THEN server_ends(101)
     ELSE /\ rollup_fd' = TRUE
          /\ at' = "create_server"
          /\ UNCHANGED <<env, status, server_ready, bound, dapp, shell>>

\* Mutant of create_server: the dapp is told before the address is bound.
create_server_notifies_first ==
  /\ On /\ at = "create_server"
  /\ \/ ~server_ready /\ server_ready' = TRUE
        /\ UNCHANGED <<env, at, status, bound, rollup_fd, dapp, shell>>
     \/ /\ server_ready
        /\ IF env.port
             THEN /\ bound' = TRUE /\ at' = "serve"
                  /\ UNCHANGED <<env, status, server_ready, rollup_fd, dapp, shell>>
             ELSE server_ends(0)

\* An address in use is logged, and main returns Ok.
create_server ==
  /\ On /\ at = "create_server"
  /\ IF env.port
       THEN /\ bound' = TRUE
            /\ at' = "notify"
            /\ UNCHANGED <<env, status, server_ready, rollup_fd, dapp, shell>>
       ELSE server_ends(0)

notify_one ==
  /\ Goto("notify", "serve")
  /\ server_ready' = TRUE
  /\ UNCHANGED <<env, status, bound, rollup_fd, dapp, shell>>

\* A signal stops the service, with or without an error, at any time.
server_stops ==
  /\ On /\ Serving
  /\ \E code \in Status : server_ends(code)

\* The other task: server_ready.notified().await, then dapp_process::run.
start_dapp ==
  /\ On /\ Serving /\ server_ready
  /\ dapp = "waiting" /\ dapp' = "running"
  /\ UNCHANGED <<env, at, status, server_ready, bound, rollup_fd, shell>>

\* It ended, or could not start.
dapp_ends ==
  /\ On /\ Serving
  /\ dapp = "running" /\ dapp' = "ended"
  /\ UNCHANGED <<env, at, status, server_ready, bound, rollup_fd, shell>>

dapp_throws ==
  /\ On /\ Serving /\ dapp = "ended"
  /\ dapp' = "reported"
  /\ \/ Halted("exception", 0)
     \/ UNCHANGED power                          \* refused: it is only logged
  /\ UNCHANGED <<env, at, status, RC, server_ready, bound, rollup_fd, ended>>

-----------------------------------------------------------------------------
(* rollup-init after the server: its MESSAGE goes to the tool as it is.    *)

MESSAGE == [hex |-> FALSE]         \* "rollup-http-server exited with $? status"

\* The tool's constructor needs the device, and its unhex a hexadecimal text.
rollup_exception ==
  /\ On /\ at = "server over"
  /\ IF env.device /\ MESSAGE.hex
       THEN Halted("exception", 0) /\ UNCHANGED <<at, status, ended>>
       ELSE Ends(1) /\ UNCHANGED power
  /\ UNCHANGED <<env, RC, server>>

-----------------------------------------------------------------------------
(* cartesi-init after the entrypoint.                                      *)

keep_status ==
  /\ Goto("entrypoint over", "remount")
  /\ RC' = status
  /\ UNCHANGED <<env, status, server, power, ended>>

\* Mutant of shut_down: the script ends at the first error.
shut_down_or_exit ==
  /\ On /\ at \in {"remount", "umount"}
  /\ status' \in {0, 1}
  /\ at' = IF status' = 1 THEN "exited" ELSE IF at = "remount" THEN "umount" ELSE "halt"
  /\ UNCHANGED <<env, server, shell>>

\* Mutant of shut_down: $? is kept anew after each command.
shut_down_keeps_status ==
  /\ On /\ at \in {"remount", "umount"}
  /\ status' \in {0, 1} /\ RC' = status'
  /\ at' = IF at = "remount" THEN "umount" ELSE "halt"
  /\ UNCHANGED <<env, power, ended, server>>

\* Either command may fail, and the script goes on.
shut_down ==
  /\ On /\ at \in {"remount", "umount"}
  /\ status' \in {0, 1}
  /\ at' = IF at = "remount" THEN "umount" ELSE "halt"
  /\ UNCHANGED <<env, server, shell>>

xhalt ==
  /\ On /\ at = "halt" /\ RC # 0 /\ env.xhalt
  /\ Halted("xhalt", RC)
  /\ UNCHANGED <<env, at, status, RC, ended, server>>

\* It may be refused, and the script goes on.
xhalt_fails ==
  /\ RC # 0 /\ env.xhalt
  /\ Goto("halt", "poweroff")
  /\ status' \in Status
  /\ UNCHANGED <<env, server, shell>>

poweroff ==
  /\ On
  /\ at = "poweroff" \/ (at = "halt" /\ (RC = 0 \/ ~env.xhalt))
  /\ Halted("poweroff", 0)
  /\ UNCHANGED <<env, at, status, RC, ended, server>>

shell_steps ==
  \/ nothing_to_do \/ workdir_fails \/ run_entrypoint
  \/ rollup_exception \/ keep_status \/ shut_down
  \/ xhalt \/ xhalt_fails \/ poweroff

Next ==
  \/ shell_steps \/ other_program_ends
  \/ server_main \/ create_server \/ notify_one \/ server_stops
  \/ start_dapp \/ dapp_ends \/ dapp_throws

\* The scripts go on; what programs and signals do is their business.
Spec == Init /\ [][Next]_vars /\ WF_vars(shell_steps)

-----------------------------------------------------------------------------
(* Correctness.                                                            *)

\* What the host learns from the halt is the status of the entrypoint, and
\* not that of a command of the shutdown (cartesi-init:60-68); if xhalt is not
\* there or fails, it learns nothing.
HaltTellsStatus ==
  power.by \in {"xhalt", "poweroff"} =>
    power.code = IF env.xhalt /\ at # "poweroff" THEN ended ELSE 0

\* "wait until the server is ready and then start the dapp" (main.rs:103):
\* the dapp's first request finds a server that listens and has the device.
DappFindsServer == dapp = "running" /\ Serving => bound /\ rollup_fd

\* However the boot goes wrong and whatever fails on the way down, once the
\* entrypoint is over the machine halts (cartesi-init:40-68).
MachineHalts == (at = "entrypoint over") ~> ~On

\* "throw an exception read from stdin as a JSON object in the format
\* {"payload": <hex-data> }" (rollup.cpp:142-143): rollup-init, which ends
\* with such a call, raises an exception when the server is over.
ServerEndRaisesException ==
  at = "entrypoint over" /\ env.entrypoint # "none" /\ env.workdir
    => env.program # "rollup-init" \/ ~env.device
=============================================================================

------------------------------ MODULE BootProofs ------------------------------
(***************************************************************************)
(* Theorems of Boot.tla, for any set of statuses.                          *)
(***************************************************************************)
EXTENDS Boot, TLAPS

(* The inductive invariant.                                                *)

BeforeEnd == {"boot", "other", "rollup-init", "create_server", "notify", "serve", "server over"}
Keeping == {"remount", "umount", "halt", "poweroff"}

\* The entrypoint's status is in $? until it is kept in RC, and in RC from
\* then on; only the last command halts the machine by itself.
StatusInv ==
  /\ env.program \in {"rollup-init", "other"}
  /\ at \in BeforeEnd \cup {"entrypoint over"} \cup Keeping
  /\ at = "entrypoint over" => status = ended
  /\ at \in Keeping => RC = ended
  /\ power.by \in {"nothing", "exception", "xhalt", "poweroff"}
  /\ HaltTellsStatus

\* The server has the device from its first step on, and is bound before it
\* says that it is ready; the dapp is started after that.
ServerInv ==
  /\ Serving => rollup_fd
  /\ at \in {"notify", "serve"} => bound
  /\ server_ready => at \notin {"boot", "other", "rollup-init", "create_server", "notify"}
  /\ dapp # "waiting" => server_ready

BootInv == StatusInv /\ ServerInv

-----------------------------------------------------------------------------
\* The invariant holds at the start.
LEMMA InitBootInv == Init => BootInv
<1>1. Init => env.program \in {"rollup-init", "other"}
  BY DEF Init, Environment
<1>. QED
  BY <1>1 DEF Init, BootInv, StatusInv, ServerInv, HaltTellsStatus, Serving, BeforeEnd, Keeping

\* The server is over, whatever ended it.
LEMMA ServerEnds ==
  ASSUME BootInv, On, at \in BeforeEnd, NEW code, server_ends(code)
  PROVE  BootInv'
BY DEF server_ends, BootInv, StatusInv, ServerInv, HaltTellsStatus, Serving, BeforeEnd, Keeping,
       On, shell

\* The entrypoint is over, whatever it was.
LEMMA EntrypointEnds ==
  ASSUME BootInv, On, at \in BeforeEnd, NEW code, Ends(code), UNCHANGED <<env, RC, power, server>>
  PROVE  BootInv'
BY DEF Ends, BootInv, StatusInv, ServerInv, HaltTellsStatus, Serving, BeforeEnd, Keeping, On,
       server

\* No step breaks the invariant.
LEMMA NextBootInv == BootInv /\ [Next]_vars => BootInv'
<1>. SUFFICES ASSUME BootInv, [Next]_vars PROVE BootInv'
  OBVIOUS
<1>1. CASE nothing_to_do \/ workdir_fails \/ other_program_ends
  BY <1>1, EntrypointEnds DEF nothing_to_do, workdir_fails, other_program_ends, BeforeEnd
<1>2. CASE run_entrypoint
  <2>1. /\ at' = env.program /\ On /\ at = "boot"
        /\ UNCHANGED <<env, status, server, RC, power, ended>>
    BY <1>2 DEF run_entrypoint, Goto, shell
  <2>2. StatusInv'
    BY <2>1 DEF BootInv, StatusInv, HaltTellsStatus, BeforeEnd, Keeping
  <2>3. ServerInv'
    BY <2>1 DEF BootInv, StatusInv, ServerInv, Serving, server
  <2>. QED
    BY <2>2, <2>3 DEF BootInv
<1>3. CASE server_main
  <2>1. CASE \E code \in {1, 101} : server_ends(code)
    BY <1>3, <2>1, ServerEnds DEF server_main, BeforeEnd
  <2>2. CASE /\ rollup_fd' = TRUE /\ at' = "create_server"
             /\ UNCHANGED <<env, status, server_ready, bound, dapp, shell>>
    BY <1>3, <2>2
       DEF server_main, BootInv, StatusInv, ServerInv, HaltTellsStatus, Serving, BeforeEnd,
           Keeping, On, shell
  <2>. QED
    BY <1>3, <2>1, <2>2 DEF server_main
<1>4. CASE create_server
  <2>1. CASE server_ends(0)
    BY <1>4, <2>1, ServerEnds DEF create_server, BeforeEnd
  <2>2. CASE /\ bound' = TRUE /\ at' = "notify"
             /\ UNCHANGED <<env, status, server_ready, rollup_fd, dapp, shell>>
    BY <1>4, <2>2
       DEF create_server, BootInv, StatusInv, ServerInv, HaltTellsStatus, Serving, BeforeEnd,
           Keeping, On, shell
  <2>. QED
    BY <1>4, <2>1, <2>2 DEF create_server
<1>5. CASE notify_one
  BY <1>5 DEF notify_one, Goto, BootInv, StatusInv, ServerInv, HaltTellsStatus, Serving,
              BeforeEnd, Keeping, On, shell
<1>6. CASE server_stops
  <2>1. at \in BeforeEnd
    BY <1>6 DEF server_stops, Serving, BeforeEnd
  <2>. QED
    BY <1>6, <2>1, ServerEnds DEF server_stops
<1>7. CASE start_dapp \/ dapp_ends
  BY <1>7 DEF start_dapp, dapp_ends, BootInv, StatusInv, ServerInv, HaltTellsStatus, Serving,
              BeforeEnd, Keeping, On, shell
<1>8. CASE dapp_throws
  <2>1. power'.by \in {"nothing", "exception"}
    BY <1>8 DEF dapp_throws, Halted, On
  <2>. QED
    BY <1>8, <2>1 DEF dapp_throws, BootInv, StatusInv, ServerInv, HaltTellsStatus, Serving,
                      BeforeEnd, Keeping
<1>9. CASE rollup_exception
  <2>1. CASE Halted("exception", 0) /\ UNCHANGED <<at, status, ended>>
    BY <1>9, <2>1 DEF rollup_exception, Halted, BootInv, StatusInv, ServerInv, HaltTellsStatus,
                      Serving, BeforeEnd, Keeping, server
  <2>2. CASE Ends(1) /\ UNCHANGED power
    BY <1>9, <2>2, EntrypointEnds DEF rollup_exception, BeforeEnd
  <2>. QED
    BY <1>9, <2>1, <2>2 DEF rollup_exception
<1>10. CASE keep_status
  BY <1>10 DEF keep_status, Goto, BootInv, StatusInv, ServerInv, HaltTellsStatus, Serving,
               BeforeEnd, Keeping, On, server
<1>11. CASE shut_down
  BY <1>11 DEF shut_down, BootInv, StatusInv, ServerInv, HaltTellsStatus, Serving, BeforeEnd,
               Keeping, On, server, shell
<1>12. CASE xhalt \/ poweroff
  <2>1. /\ at \in {"halt", "poweroff"} /\ RC = ended
        /\ UNCHANGED <<env, at, status, RC, ended, server>>
        /\ \/ power' = [by |-> "xhalt", code |-> RC] /\ env.xhalt /\ at = "halt"
           \/ /\ power' = [by |-> "poweroff", code |-> 0]
              /\ RC = 0 \/ ~env.xhalt \/ at = "poweroff"
    BY <1>12 DEF xhalt, poweroff, Halted, BootInv, StatusInv, Keeping
  <2>2. HaltTellsStatus' /\ power'.by \in {"xhalt", "poweroff"}
    BY <2>1 DEF HaltTellsStatus
  <2>. QED
    BY <2>1, <2>2 DEF BootInv, StatusInv, ServerInv, Serving, server
<1>13. CASE xhalt_fails
  BY <1>13 DEF xhalt_fails, Goto, BootInv, StatusInv, ServerInv, HaltTellsStatus, Serving,
               BeforeEnd, Keeping, On, server, shell
<1>14. CASE UNCHANGED vars
  BY <1>14 DEF vars, BootInv, StatusInv, ServerInv, HaltTellsStatus, Serving
<1>. QED
  BY <1>1, <1>2, <1>3, <1>4, <1>5, <1>6, <1>7, <1>8, <1>9, <1>10, <1>11, <1>12, <1>13, <1>14
     DEF Next, shell_steps

-----------------------------------------------------------------------------
(* Theorems.                                                               *)

\* What the host learns from the halt is the status of the entrypoint
\* (cartesi-init:60-68).
THEOREM HaltCorrect == Spec => []HaltTellsStatus
<1>1. BootInv => HaltTellsStatus
  BY DEF BootInv, StatusInv
<1>. QED
  BY InitBootInv, NextBootInv, <1>1, PTL DEF Spec

\* The dapp finds a server that listens and has the device (main.rs:103).
THEOREM DappStartCorrect == Spec => []DappFindsServer
<1>1. BootInv => DappFindsServer
  BY DEF BootInv, ServerInv, DappFindsServer, Serving
<1>. QED
  BY InitBootInv, NextBootInv, <1>1, PTL DEF Spec
=============================================================================

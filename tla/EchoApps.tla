------------------------------ MODULE EchoApps ------------------------------
(***************************************************************************)
(* A machine with one of the two echo applications in it.                  *)
(***************************************************************************)
EXTENDS EchoLoop, EchoDapp

NextApps == starts \/ loop \/ dapp \/ host_next

\* The program in the machine is scheduled while it runs, and so is the server
\* that serves the dapp (see RollupHttp).
FairSpecApps == InitEcho /\ [][NextApps]_varsEcho /\ WF_varsEcho(loop) /\ WF_varsEcho(dapp)
=============================================================================

---------------------------- MODULE MCEchoApps ----------------------------
(* Two payloads, of which one is too long for a voucher.                   *)
EXTENDS EchoApps
CONSTANTS short, long
MCPayloadLength == [p \in Payload |-> IF p = short THEN 32 ELSE 33]
=============================================================================

------------------------------ MODULE MCRollup ------------------------------
EXTENDS Rollup
CONSTANTS short, long
MCPayloadLength == [p \in Payload |-> IF p = short THEN 32 ELSE 33]
=============================================================================

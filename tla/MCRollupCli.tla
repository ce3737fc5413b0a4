---------------------------- MODULE MCRollupCli ----------------------------
EXTENDS RollupCli, TLC
CONSTANTS p1, q1, q2
MCPayloadLength == [p \in Payload |-> 33]
MCCommands == {"notice", "report", "exception", "accept", "reject", "gio"}
Processes == Permutations(Proc)
=============================================================================

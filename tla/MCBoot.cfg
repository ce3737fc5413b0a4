SPECIFICATION Spec
CONSTANT Status <- MCStatus
INVARIANTS HaltTellsStatus DappFindsServer
PROPERTIES MachineHalts
CHECK_DEADLOCK FALSE

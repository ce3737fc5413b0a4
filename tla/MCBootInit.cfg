SPECIFICATION Spec
CONSTANT Status <- MCStatus
INVARIANTS ServerEndRaisesException
CHECK_DEADLOCK FALSE

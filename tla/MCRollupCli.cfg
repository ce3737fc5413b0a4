SPECIFICATION SpecCli
CONSTANTS
  p1 = p1
  q1 = q1
  q2 = q2
  Payload = {p1}
  PayloadLength <- MCPayloadLength
  TxLength = 164
  Capacity = 3
  MaxOutputs = 2
  Proc = {q1, q2}
  Commands <- MCCommands
INVARIANTS TreeSurvives PrintedIndexIsPosition AcceptedRootCoversSettled
PROPERTIES LostOnlyUnsaved
SYMMETRY Processes

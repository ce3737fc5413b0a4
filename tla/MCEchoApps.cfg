SPECIFICATION FairSpecApps
CONSTANTS
  short = short
  long = long
  Payload = {short, long}
  PayloadLength <- MCPayloadLength
  TxLength = 164
  Capacity = 5
  MaxOutputs = 6
  Vouchers = 1
  Notices = 1
  Reports = 1
  Reject = 1
  Exception = 2
  RejectInspects = TRUE
  IntValues = 3
  MaxInputs = 5
INVARIANTS SettledAreEchoes NthNotAccepted
PROPERTIES Decided
CHECK_DEADLOCK FALSE

SPECIFICATION Spec
CONSTANTS
  short = short
  long = long
  Payload = {short, long}
  PayloadLength <- MCPayloadLength
  TxLength = 164
  Capacity = 2
  MaxOutputs = 3
INVARIANTS TypeOK TreeListsOutputs IndexIsPosition ClaimCoversSettled CurrentRequestReadable
PROPERTIES RequestsSettleWhole ImplementsLedger

SPECIFICATION SpecHttp
CONSTANTS
  c1 = c1
  c2 = c2
  w1 = w1
  w2 = w2
  p1 = p1
  DappProcess = DappProcess
  Payload = {p1}
  PayloadLength <- MCPayloadLength
  TxLength = 164
  Capacity = 3
  MaxOutputs = 2
  Conn = {c1, c2}
  Worker = {w1, w2}
  WorkerOf <- OwnWorkers
  Posts <- MainPosts
INVARIANTS TypeOKHttp NoLostGuard StoppedInOwnersCall FinishRepliesWithItsRequest IndexReplyNamesOutput
SYMMETRY Swap

SPECIFICATION SpecMock
CONSTANTS
  p1 = p1
  p2 = p2
  Payload = {p1, p2}
  PayloadLength <- MCPayloadLength
  TxLength = 132
  Capacity = 2
  MaxOutputs = 2
  InputNames = {"a", "b"}
  InputLists <- MCInputLists
  LoadErrors = {"missing", "too_long", "unnamed"}
  MaxSeq <- MCMaxSeq
  Emits <- OneNotice
  Texts = {p1, p2}
INVARIANTS NumberIsIndex NextNamesAreNew
PROPERTIES ImplementsMachine
VIEW WithoutTold

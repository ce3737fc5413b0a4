SPECIFICATION SpecTools
CONSTANTS
  Base = 2
  Unit = 4
  MinDomain = 8
  Requests <- MCRequests
  Answers <- MCAnswers
  DataArgs <- MCDataArgs
  Domains <- MCDomains
  Ids <- MCIds
  U256Length = 3
  AddressLength = 2
  MaxText = 7
  Texts <- MCTexts
  Chunk = 4
  MaxInput = 6
  Inputs <- MCInputs
INVARIANTS ClosedHoldsNothing HostGetsNamedRequest GioReachesHost ServerReadsNumber FullTextsAgree HexIsRight
PROPERTIES YieldIsWhole
CHECK_DEADLOCK FALSE

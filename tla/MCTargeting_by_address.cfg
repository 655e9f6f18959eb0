SPECIFICATION Spec
CONSTANTS
  A = A
  B = B
  Printers = {A, B}
  Models = {1, 2, 3, 4}
  Unknown = 0
  Any = Any
  None = None
  Matching <- MCMatching
  InSerial <- MCInSerial
  WithCodes = {2, 4}
  SharedSettings = {B}
  Requests <- MCByAddress
  SerialMayFail = FALSE
INVARIANTS
  PrintsWhereNamed

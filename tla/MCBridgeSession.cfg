SPECIFICATION Spec
CONSTANTS
  a = a
  b = b
  Clients = {a, b}
  Rude = {b}
  IdleAborts = {a}
  MaxCalls = 2
  MaxInAll = 3
INVARIANTS
  TypeOK
  OneServed
  RepliesMatch
  CancelIsMine
PROPERTIES
  ImplementsService
  CancelIsAnswered
  GoneIsReleased

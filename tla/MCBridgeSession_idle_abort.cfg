SPECIFICATION Spec
CONSTANTS
  a = a
  b = b
  Clients = {a}
  Rude = {}
  IdleAborts = {a}
  MaxCalls = 1
  MaxInAll = 1
PROPERTIES
  AbortReturns

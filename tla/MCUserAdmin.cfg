CONSTANTS
  admin = admin
  peer = peer
  Accounts <- MCAccounts
  Self = admin
  MaxLoads = 2
  MaxCalls = 2
  MaxBinds = 2
SPECIFICATION Spec
INVARIANT CreateFormBound

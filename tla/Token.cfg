SPECIFICATION Spec
CONSTANTS
  Owner = owner
  Users = {u1}
  Contracts = {k1, token}
  Token = token
  Payable = {k1}
  Invalid = invalid
  InitialSupply = 3
  MaxUpdates = 1
  None = None
INVARIANTS TypeOK Conserved EventsExplainBalances
PROPERTIES Consent

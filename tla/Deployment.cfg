SPECIFICATION Spec
CONSTANTS
  Operators = {o1, o2}
  Clients = {r1, r2}
  Contracts = {"c1"}
  Scripts = {"s1"}
  OtherEnvs = {""}
  Args = {"TEST"}
  Served = {"testnet"}
  MaxHead = 2
  MaxVersions <- MCMaxVersions
  DockerFails = TRUE
  None = None
SYMMETRY Symmetry
INVARIANTS TypeOK RecordsWhereSent UpAfterStart
PROPERTIES NetworksApart
CHECK_DEADLOCK FALSE

SPECIFICATION Spec
CONSTANTS
  Bases = {0, 1}
  LongBases = {}
  Text = {"a", "b"}
  Spellings = {"c1", "C1"}
  Contracts = {"c1"}
  Denotes <- SameContract
  MaxNow = 1
  None = None
  Garbage = Garbage
  Packages = {"p"}
  Requests = {r1, r2}
  Uploads <- FaultsUploads
  Deployable <- FaultsScripts
  MaxVersions = 2
  Faults = {"client", "start", "rpc", "node", "blank", "mongo", "find", "insert"}
  Arrivals = "any"
SYMMETRY Symmetry
INVARIANTS TypeOK VerifiedMatchesChain AnswersBacked Inv
PROPERTIES RegistrySpec

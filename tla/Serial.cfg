SPECIFICATION Spec
CONSTANTS
  Bases = {0, 1}
  LongBases = {}
  Text = {"a", "b"}
  Spellings = {"c1"}
  Contracts = {"c1"}
  Denotes <- OneSpelling
  MaxNow = 2
  None = None
  Garbage = Garbage
  Packages = {"p"}
  Requests = {r1, r2}
  Uploads <- SerialUploads
  Deployable <- SerialScripts
  MaxVersions = 2
  Faults = {"client", "start", "rpc", "node", "blank", "mongo", "insert"}
  Arrivals = "serial"
SYMMETRY Symmetry
INVARIANTS UniqueRecords CompiledFromOwnUpload SourcesExplainVerdict

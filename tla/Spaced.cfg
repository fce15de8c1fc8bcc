SPECIFICATION Spec
CONSTANTS
  Bases = {0, 1}
  LongBases = {}
  Text = {"a", "b"}
  Spellings = {"c1"}
  Contracts = {"c1"}
  Denotes <- OneSpelling
  MaxNow = 2
  None = None
  Garbage = Garbage
  Packages = {"p"}
  Requests = {r1, r2}
  Uploads <- SpacedUploads
  Deployable <- SpacedScripts
  MaxVersions = 2
  Faults = {"client", "rpc", "node"}
  Arrivals = "spaced"
SYMMETRY Symmetry
INVARIANTS CompiledFromOwnUpload SourcesExplainVerdict FolderLifetime ServerStaysUp

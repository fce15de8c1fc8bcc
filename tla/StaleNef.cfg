SPECIFICATION Spec
CONSTANTS
  Bases = {0, 1}
  LongBases = {}
  Text = {"a", "b"}
  Spellings = {"c1"}
  Contracts = {"c1"}
  Denotes <- OneSpelling
  MaxNow = 1
  None = None
  Garbage = Garbage
  Packages = {"p"}
  Requests = {r1}
  Uploads <- StaleUploads
  Deployable <- BoaScripts
  MaxVersions = 1
  Faults = {}
  Arrivals = "serial"
INVARIANTS CompiledFromOwnUpload

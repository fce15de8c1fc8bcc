SPECIFICATION Spec
CONSTANTS
  Bases = {0, 1}
  LongBases = {}
  Text = {"a", "b"}
  Spellings = {"c1"}
  Contracts = {"c1"}
  Denotes <- OneSpelling
  MaxNow = 0
  None = None
  Garbage = Garbage
  Packages = {"p"}
  Requests = {r1, r2}
  Uploads <- SecondUploads
  Deployable <- FaultsScripts
  MaxVersions = 1
  Faults = {}
  Arrivals = "any"
SYMMETRY Symmetry
INVARIANTS SourcesExplainVerdict

SPECIFICATION Spec
CONSTANTS
  Bases = {0, 1}
  LongBases = {}
  Text = {"a", "b"}
  Spellings = {"c1"}
  Contracts = {"c1"}
  Denotes <- OneSpelling
  MaxNow = 1
  None = None
  Garbage = Garbage
  Packages = {"p"}
  Requests = {r1, r2}
  Uploads <- BoaUploads
  Deployable <- BoaScripts
  MaxVersions = 1
  Faults = {}
  Arrivals = "spaced"
SYMMETRY Symmetry
INVARIANTS UniqueRecords

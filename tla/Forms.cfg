SPECIFICATION Spec
CONSTANTS
  Bases <- FormBases
  LongBases = {2}
  Text = {"a", "b"}
  Spellings = {"c1"}
  Contracts = {"c1"}
  Denotes <- OneSpelling
  MaxNow = 1
  None = None
  Garbage = Garbage
  Packages = {"p"}
  Requests = {r1, r2}
  Uploads <- FormUploads
  Deployable <- FormScripts
  MaxVersions = 1
  Faults = {"start"}
  Arrivals = "serial"
SYMMETRY Symmetry
INVARIANTS OnlyFatalFormsKill CompiledAsRouted GoNeverCompared

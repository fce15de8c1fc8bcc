SPECIFICATION FairSpec
CONSTANTS
  Bases = {0, 1}
  LongBases = {}
  Text = {"a", "b"}
  Spellings = {"c1"}
  Contracts = {"c1"}
  Denotes <- OneSpelling
  MaxNow = 1
  None = None
  Garbage = Garbage
  Packages = {"p"}
  Requests = {r1, r2}
  Uploads <- ProgressUploads
  Deployable <- ProgressScripts
  MaxVersions = 1
  Faults = {"find"}
  Arrivals = "any"
PROPERTIES HandlerProgress EveryRequestSettles

CONSTANTS
  v1 = v1
  v2 = v2
  f1 = f1
  f2 = f2
  Volumes = {v1, v2}
  NoVol = NoVol
  Refresher = Refresher
  InitPools = 1
  Parents = {f1, f2}
  NoParent = NoParent
  NPools = 2
  PoolOf <- MCPoolOf
  ParentSize <- MCParentSize
  MinFreeBytes = 0
  MinFreePercent = 50
  Ratio <- MCRatio
  MaxUint = 16383
  Size <- MCSize
  PoolsFor <- MCPoolsFor
  MaxTries <- MCMaxTries
  MaxLost = 1
  MaxCrashes = 1
SPECIFICATION FairSpec
INVARIANTS JournalSafety OvercommitNeedsLoss PoolLocksReturn
PROPERTIES CompletedExactly ServingResumes

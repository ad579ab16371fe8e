SPECIFICATION FairSpec
CONSTANTS
  Nodes = {n1}
  NoNode = none
  IDs = {i1}
  NoID = noid
  Policies = {"archive", "retain", "delete"}
  SingleWriter = FALSE
  MaxRev = 4
  MaxFaults = 1
PROPERTIES StartupCompletes CreationResumes DeletionCompletes FencesConverge

SPECIFICATION Spec
CONSTANTS
  Sources <- MCSources
  Tool <- MCTool
  Script <- MCScript
  OneLiner <- MCOneLiner
  MaxText = 5
  MaxCycles = 30
  MaxOutput = 12
CONSTRAINT FewJobs
INVARIANTS
  ToolsConserve
  MergesAreRelational
  OneLinersAgree
PROPERTY
  SedEnds

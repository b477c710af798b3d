CONSTANTS
  None = None
  Failed = Failed
  Missing = Missing
  Broken = Broken
  l1 = l1
  l2 = l2
  Lookup = {l1, l2}
  Env <- MCEnv
  ChannelIds = {"C1", "dm"}
  Contents <- MCContents
  Edited <- MCEdited
  RuleFiles <- MCRuleFiles
  MaxWrites = 3
  MaxPrompts = 2
  MaxTime = 1
SPECIFICATION Spec
SYMMETRY Lookups
INVARIANTS
  Fresh
  ResolvedAsWritten
  SandboxOnlyGrows

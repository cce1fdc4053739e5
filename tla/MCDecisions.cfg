SPECIFICATION MCSpec
CONSTANTS
  ScopeGates = {"a", "b"}  ScopeDependsOn <- MCDependsOn  ScopeLists <- MCLists
  ScopeCommits = 4  ScopeAhead = 2
  ConfigChecks = {"a", "b", "c"}  ConfigCommands = {1}  ConfigDocuments <- MCDocuments
  ConfigNothing <- MCNothing  ConfigStacks = {"s", "t"}  ConfigCalls = {"c1", "c2"}
  ConfigOptions <- MCOptions  ConfigCommits = 2
  LedgerUsers = {"u", "v"}  LedgerTeams <- MCTeams  LedgerUpdates <- MCUpdates
  LedgerContents = {1, 2}  LedgerCommits = 3
INVARIANTS
  MainIsProven
  ChecksSeeTheSchema
  ReviewsMissNothing
  LedgerKeepsItsWord
  GuardsJudgeRight
  SpecMeansWhatItSays
  AuditsAreHonest
CHECK_DEADLOCK FALSE

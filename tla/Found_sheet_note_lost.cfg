\* One server, one sweep and one deletion by hand.
SPECIFICATION RetentionSpec
CONSTANTS
  Questions <- MCQuestions
  OpenQuestions <- MCOpenQuestions
  Policies <- MCPolicies
  Sweeps = {s1}
  Deletions = {x1}
  ProcessOf <- MCProcessOf
  MaxDay = 3
INVARIANT ClearedIsExplained
CHECK_DEADLOCK FALSE

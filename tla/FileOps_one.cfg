CONSTANTS
  Ops = {op}
  Items = 2
  Parts = {a, b}
  Modes = {"copy", "move"}
  Policies = {"skip", "overwrite", "rename", "keep-both"}
  Kinds = {"file", "dir"}
  Old = old
  PartialRemoval = FALSE
SPECIFICATION Spec
INVARIANTS SourcesSurvive TargetsAreSound
PROPERTIES ReplacingIsSafe
CHECK_DEADLOCK FALSE

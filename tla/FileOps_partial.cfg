CONSTANTS
  Ops = {op}
  Items = 1
  Parts = {a, b}
  Modes = {"copy", "move"}
  Policies = {"skip", "overwrite", "rename", "keep-both"}
  Kinds = {"file", "dir"}
  Old = old
  PartialRemoval = TRUE
SPECIFICATION Spec
INVARIANT SourcesSurvive
CHECK_DEADLOCK FALSE

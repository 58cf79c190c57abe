CONSTANTS
  Trees <- MCTrees
  Arguments <- MCArguments
  MAXFD = 5
  PATH_MAX = 5
SPECIFICATION Spec
CHECK_DEADLOCK FALSE
INVARIANTS OldOrNew WholeOrWhy NeverInto SourceKept

SPECIFICATION SqlSpec
CONSTANTS
  Database = {d1}
  DatabaseVariable = {v, w}
  Stmt = {s1, s2}
  StmtVariable = {p, q}
  NULL = NULL
  Param = {i}
  MaxRow = 2
  BindErrors = FALSE
  AutoReset = TRUE
PROPERTY CommitCommits
CHECK_DEADLOCK FALSE

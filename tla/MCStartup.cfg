CONSTANTS
  old = old
  new = new
  edited = edited
  checker = checker
  skipper = skipper
  None = None
  Process = {old, new, edited, checker, skipper}
  Mode <- MCMode
  HasPassword = {old, new, checker}
  Dialect = {"sqlite", "mysql"}
  Latest = 3
  Content = {"init", "core", "core2", "comment"}
  Files <- MCFiles
  Script <- MCScript
  Statement = {"users", "projects", "drop", "index", "column"}
  Repeatable = {"drop"}
  UserTable = "users"
SPECIFICATION StartupSpec
INVARIANTS
  StartupInv
  RecordedIsDone
  NothingHalfDone
  ServesItsSchema
PROPERTIES
  ImplementsSchemaHistory

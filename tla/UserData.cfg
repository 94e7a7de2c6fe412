SPECIFICATION Spec
CONSTANTS
  Procs = {p1, p2}
  Emails = {e1}
  Externals = {x1}
  Kinds = {"calendar"}
  Operations = {"add_account", "verify", "delete", "patch", "sync", "sync_task", "parse", "list"}
  MaxRequests = 2
  MaxFailures = 1
  MaxRenames = 1
CHECK_DEADLOCK FALSE
INVARIANTS TypeOK OneRowUnlessRace RowsHaveAnAccount
PROPERTIES OnlyPatchChooses RowsFollowMailbox

SPECIFICATION Spec
CONSTANTS
    Module = {"location", "power", "tracker", "demo", "absent"}
    Handler = {"location", "power", "tracker", "demo", "absent"}
    Missing = {"absent"}
    Notification = {"shock", "acc"}
    Methods <- MCMethods
    Hash <- MCHash
    Confs <- MCConfs
    Imports <- MCImports
CHECK_DEADLOCK FALSE
INVARIANTS
    ServedAsDeclared
    RightInterface
    HandlersKept

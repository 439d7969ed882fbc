SPECIFICATION Spec
CONSTANTS
    User = {u1, u2}
    Request = {"GETTOD", "WRITETERM", "DELAY"}
INVARIANT
    ReturnsToCaller
CHECK_DEADLOCK FALSE

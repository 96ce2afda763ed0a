SPECIFICATION Spec
CONSTANTS
    Ids = {1}
    Families = {v4}
    Remotes = {r}
    Ports = {1, 2}
    First = 1
    Last = 2
INVARIANTS RetryIsDecisive
CHECK_DEADLOCK FALSE

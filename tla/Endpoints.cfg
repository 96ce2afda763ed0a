SPECIFICATION LiveSpec
CONSTANTS
    Ids = {1, 2, 3}
    Families = {v4}
    Remotes = {r}
    Ports = {1, 2}
    First = 1
    Last = 2
INVARIANTS TypeOK PortsExclusive IndexExact ResetIsTrue ResetIsTold
PROPERTIES ConnectSettles
CHECK_DEADLOCK FALSE

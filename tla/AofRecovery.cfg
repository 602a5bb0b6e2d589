SPECIFICATION Spec
CONSTANTS
    Requests <- MCRequests
    Routes = {"RPUSH"}
    Policies = {"always", "everysec"}
    MaxCommands = 3
    MaxRestarts = 2
    MaxSaves = 1
    MaxFaults = 1
INVARIANT FileMatchesMemory
INVARIANT AlwaysDurable
 
CHECK_DEADLOCK FALSE

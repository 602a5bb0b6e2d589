SPECIFICATION Spec
CONSTANTS
    Requests <- MCRequests
    Routes = {}
    Policies = {"always", "everysec"}
    MaxCommands = 3
    MaxRestarts = 2
    MaxSaves = 1
    MaxFaults = 1
CHECK_DEADLOCK FALSE
PROPERTY RestartExact

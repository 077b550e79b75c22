SPECIFICATION Spec
CONSTANTS
    Mode = "subscribe"
    Env = {"busy"}
    MaxChanges = 3
    MaxCrashes = 0
    MaxErrors = 0
PROPERTY MovedBeforeCleared
CHECK_DEADLOCK FALSE

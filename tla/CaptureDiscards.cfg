SPECIFICATION Spec
CONSTANTS
    Mode = "subscribe"
    Env = {}
    MaxChanges = 2
    MaxCrashes = 0
    MaxErrors = 0
PROPERTY ExecutedBeforeRemoved
CHECK_DEADLOCK FALSE

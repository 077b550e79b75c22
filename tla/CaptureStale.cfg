SPECIFICATION Spec
CONSTANTS
    Mode = "publish"
    Env = {}
    MaxChanges = 3
    MaxCrashes = 0
    MaxErrors = 0
PROPERTY FreshFile
CHECK_DEADLOCK FALSE

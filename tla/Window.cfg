SPECIFICATION Spec
CONSTANTS
    Table = {t1, t2}
    NoTable = NoTable
    Env = {"refuse", "closed", "restart", "fiddle"}
    MaxClicks = 3
    MaxTroubles = 3
INVARIANT TypeOK
INVARIANT TriggersBeforeTransfer
INVARIANT CarriedOut
INVARIANT LogTellsTask
CHECK_DEADLOCK FALSE

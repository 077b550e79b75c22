SPECIFICATION FairSpec
CONSTANTS
    Client = {c1, c2}
    None = None
    Env = {"slow", "split", "kill", "crash"}
    MaxPkts = 4
    Retries = 2
    Capacity = 4
    MaxTroubles = 2
INVARIANT TypeOK
INVARIANT DownloadWhole
INVARIANT UploadHeard
INVARIANT StatsOnce
INVARIANT SendsAreRead
PROPERTY ProbeEnds
PROPERTY ServesOn
CHECK_DEADLOCK FALSE

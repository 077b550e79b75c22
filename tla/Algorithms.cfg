SPECIFICATION Spec
CONSTANTS
    Column = "COL"
    Listed = {"VARCHAR"}
    TextType = {"VARCHAR", "VARCHAR2"}
    IntMax = 60
    Header = 3
    MaxDatagram = 20
    NoSection = NoSection
    Localhost = {"127.0.0.1", "localhost"}
    MaxLen = 9
    MaxSlack = 3
    MaxPcs = 365
    NoTable = NoTable
    MaxSent = 3
    Changes <- SomeChanges
    Texts <- SizeTexts
    Files <- TwoSections
    Typings <- Typed
    Databases <- SmallDatabases
    Nothing = Nothing
INVARIANT SurvivorsExactly
INVARIANT StrayOnlyIfMisled
INVARIANT FragmentsWhole
INVARIANT ExecutedExact
INVARIANT SentExactly
INVARIANT MachinesApart
INVARIANT FindsDefined
INVARIANT FoundIsBacked
INVARIANT PickedExists
CHECK_DEADLOCK FALSE

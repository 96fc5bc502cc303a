\* What a load goes through, one part at a time.  The transfer: loss and
\* duplication, with options and without reordering, or without options and
\* with reordering; a file of three blocks of two units or five blocks of one
\* unit, the last of them empty.
SPECIFICATION BoardSpec
CONSTANTS
    TIMEOUT_COUNT = 2
    TFTP_SEQUENCE_SIZE = 7
    TFTP_BLOCK_SIZE = 1
    WELL_KNOWN_PORT = 69
    OurPorts <- MCOurPorts
    FileSize = 4
    Ports <- MCPorts
    OackSizes = {2}
    ErrorCodes = {1, 5}
    SeqSize = 7
    PlainSize = 1
    InOrder = TRUE
    NR_IRQS = 4
    TIMERC_IRQ2 = 2
    TIMERC_IRQ3 = 3
    CallbackStops = {}
    MaxDepth = 2
    Channels = {0, 1}
    Transfers = {0, 1}
    Cfgs = {0, 1}
    Drivers = {"020", "030"}
    BLOCK = 2
    DATA_END = 5
    BSS_END = 8
    BadWords = {0, 3, 4, 6}
    WordBits = 8
    IPIDs <- MCIPIDs
    Lengths = {0, 1, 2, 20}
    DataWords = {0, 7, 255}
INVARIANTS
    TypeOK
    StoredIsFile
    AcknowledgedIsStored
    SuccessIsWholeFile
    TransferInv
    NoTickForgotten
    EnableAsAsked
    ProgramResumes
    MainIsLoaded
    FramesRight
PROPERTIES
    OneSession
    TickServed
    StatusTold
    WaitReturns
CHECK_DEADLOCK FALSE

\* Block numbers wrap around: a file of six blocks, four sequence numbers.
SPECIFICATION Spec
CONSTANTS
    TIMEOUT_COUNT = 2
    TFTP_SEQUENCE_SIZE = 4
    TFTP_BLOCK_SIZE = 1
    WELL_KNOWN_PORT = 69
    OurPorts <- MCOurPorts
    FileSize = 5
    Ports <- MCOnePort
    OackSizes = {}
    ErrorCodes = {}
    SeqSize = 4
    PlainSize = 1
    InOrder = TRUE
INVARIANT
    StoredIsFile
CHECK_DEADLOCK FALSE

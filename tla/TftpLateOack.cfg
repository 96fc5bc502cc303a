\* Reordering, and a server that answers with an OACK.

SPECIFICATION Spec
CONSTANTS
    TIMEOUT_COUNT = 2
    TFTP_SEQUENCE_SIZE = 7
    TFTP_BLOCK_SIZE = 1
    WELL_KNOWN_PORT = 69
    OurPorts <- MCOurPorts
    FileSize = 4
    Ports <- MCPorts
    OackSizes = {2}
    ErrorCodes = {1, 5}
    SeqSize = 7
    PlainSize = 1
    InOrder = FALSE
INVARIANTS
    SuccessIsWholeFile
CHECK_DEADLOCK FALSE

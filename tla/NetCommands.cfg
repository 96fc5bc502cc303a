\* Two commands, each of which may be aborted; frames of the first arrive in the second.
SPECIFICATION Spec
CONSTANTS
    Commands = {"TFTPGET", "PING"}
    MaxCommands = 2
    MaxLoss = 0
    MaxUnsolicited = 1
    UserAborts = TRUE
    PromptHosts = FALSE
    TIMEOUT_COUNT = 1
    Ports <- MCOnePort
    FileSize = 1
    ErrorCodes = {1}
    QueueMax = 2
    OackSizes = {2}
    ARP_TIMEOUT_COUNT = 3
    TFTP_SEQUENCE_SIZE = 7
    TFTP_BLOCK_SIZE = 1
    SeqSize = 7
    PlainSize = 1
    WELL_KNOWN_PORT = 69
    LocalIPs <- MCLocal
    NetOurGatewayIP = "gateway"
    ServerIP = "server"
    PingHosts <- MCPingHosts
INVARIANTS
    TypeOK
    WaitingPacketIsCurrent
    FramesAreAddressed
    HandlersBelong
CHECK_DEADLOCK FALSE

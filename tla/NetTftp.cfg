\* Two tftpboot commands; the first may be aborted and leave a session behind.
SPECIFICATION Spec
CONSTANTS
    Commands = {"TFTPGET"}
    MaxCommands = 2
    MaxLoss = 0
    MaxUnsolicited = 0
    UserAborts = TRUE
    PromptHosts = FALSE
    TIMEOUT_COUNT = 1
    Ports <- MCPorts
    FileSize = 2
    ErrorCodes = {1}
    QueueMax = 2
    OackSizes = {}
    ARP_TIMEOUT_COUNT = 3
    TFTP_SEQUENCE_SIZE = 7
    TFTP_BLOCK_SIZE = 1
    SeqSize = 7
    PlainSize = 1
    WELL_KNOWN_PORT = 69
    LocalIPs <- MCLocal
    NetOurGatewayIP = "gateway"
    ServerIP = "server"
    PingHosts <- MCPingHosts
INVARIANT
    BootsWholeFile
PROPERTY
    RefinesBoot
CHECK_DEADLOCK FALSE

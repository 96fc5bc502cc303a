\* Two commands, which the user may abort; one frame is lost.
SPECIFICATION FairSpec
CONSTANTS
    Commands = {"TFTPGET", "PING"}
    MaxCommands = 2
    MaxLoss = 1
    MaxUnsolicited = 0
    UserAborts = TRUE
    PromptHosts = TRUE
    TIMEOUT_COUNT = 2
    Ports <- MCThreePorts
    FileSize = 2
    ErrorCodes = {}
    QueueMax = 3
    OackSizes = {2}
    ARP_TIMEOUT_COUNT = 3
    TFTP_SEQUENCE_SIZE = 7
    TFTP_BLOCK_SIZE = 1
    SeqSize = 7
    PlainSize = 1
    WELL_KNOWN_PORT = 69
    LocalIPs <- MCLocal
    NetOurGatewayIP = "gateway"
    ServerIP = "server"
    PingHosts <- MCPingHosts
PROPERTIES
    PingReturns
    TftpReturns
CHECK_DEADLOCK FALSE

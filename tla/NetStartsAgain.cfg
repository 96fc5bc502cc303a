\* A transfer in which two frames are lost.
SPECIFICATION FairSpec
CONSTANTS
    Commands = {"TFTPGET"}
    MaxCommands = 1
    MaxLoss = 2
    MaxUnsolicited = 0
    UserAborts = FALSE
    PromptHosts = TRUE
    TIMEOUT_COUNT = 2
    Ports <- MCPorts
    FileSize = 2
    ErrorCodes = {}
    QueueMax = 3
    OackSizes = {2}
    ARP_TIMEOUT_COUNT = 3
    TFTP_SEQUENCE_SIZE = 7
    TFTP_BLOCK_SIZE = 1
    SeqSize = 7
    PlainSize = 1
    WELL_KNOWN_PORT = 69
    LocalIPs <- MCLocal
    NetOurGatewayIP = "gateway"
    ServerIP = "server"
    PingHosts <- MCPingHosts
PROPERTY
    StartsAgain
CHECK_DEADLOCK FALSE

\* The libraries, one at a time.
SPECIFICATION LibrarySpec
SYMMETRY MCSymmetry
CONSTANTS
    WORD = 8
    LWORD = 64
    TIMER_LOAD_VAL = 7
    TIMER_CLOCK = 4
    CONFIG_SYS_HZ = 2
    MSECS = 2
    USECS = 2
    ARP_TIMEOUT = 2
    ARP_TIMEOUT_COUNT = 3
    Timeouts = {3}
    Delays = {3}
    Steps = {3, 4}
    MaxRolls = 2
    HeapStarts = {4108}
    HeapSize = 9000
    PageSize = 4096
    TopBit = 32768
    Tags = {tag1, tag2, tag3}
    Requests = {20, 1000, 3000}
    Alignments = {64}
    Pads = {0}
    DefaultTrim = 131072
    TrimThresholds = {6000}
    TopPads = {1000}
    ForeignSizes = {8}
    MaxCalls = 5
    Heads = {head1, head2}
    Nodes = {node1, node2, node3}
    NULL = NULL
    LIST_POISON = LIST_POISON
    IntBits = 20
    ShortBits = 10
    CharBits = 5
    Values <- MCValues
    Decimals <- MCDecimals
    FlagSets <- MCFlagSets
    Widths <- MCWidths
    Sizes = {0, 1, 2, 4, 6}
    Items <- MCItems
    Keys <- MCKeys
    MaxKeys = 4
    CMDLEN = 12
    LineLimit = 14
    ArgLimit = 5
    TypedKeys <- MCTypedKeys
    Names <- MCNames
    WordAt = 1
    Words = 2
    MaxLines = 1
    Backgrounds <- MCBackgrounds
    Letters = {97, 98}
    Hays = {6}
    Needles = {1, 3, 4}
    Thresholds = {3, 5}
    Bits = 4
    Orders = {8, 10}
    SortKeys = {1, 2, 3}
    MaxSort = 7
INVARIANTS
    TickInv
    HeapSound
    BlocksKept
    RefusedWhenFull
    ListsHold
    WalkSeesAll
    OutputRight
    InputRight
    StringsRead
    CopyRight
    FindRight
    ComputesRight
PROPERTIES
    TicksExact
    TimeoutNotEarly
    TimeoutNotLate
    ArpNotEarly
    DelayNotShort
    LinesRun
CHECK_DEADLOCK FALSE

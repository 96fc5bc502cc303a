\* The doc of calloc(): all locations set to zero.
SPECIFICATION MallocSpec
CONSTANTS
    HeapStarts = {4108}
    HeapSize = 9000
    PageSize = 4096
    TopBit = 32768
    Tags = {tag1, tag2, tag3}
    Requests = {20, 1000, 3000}
    Alignments = {64}
    Pads = {0}
    DefaultTrim = 131072
    TrimThresholds = {6000}
    TopPads = {1000}
    ForeignSizes = {8}
    MaxCalls = 5
INVARIANT
    CallocIsZero
CHECK_DEADLOCK FALSE

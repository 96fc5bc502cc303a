\* Formatted text, with buffers that are too small, just large enough, and
\* larger.
SPECIFICATION TextIOSpec
CONSTANTS
    IntBits = 20
    ShortBits = 10
    CharBits = 5
    Values = {7}
    Decimals = {7}
    FlagSets = {{}}
    Widths <- MCWidths
    Sizes = {2, 4, 6}
    Items <- MCItems
    Keys <- MCKeys
    MaxKeys = 1
INVARIANT
    BufferKept
CHECK_DEADLOCK FALSE

\* AXI, in hundredths of a second: 5000 ms * CONFIG_SYS_HZ exceeds an unsigned long.
SPECIFICATION Spec
CONSTANTS
    WORD = 429497
    LWORD = 2000000000
    TIMER_LOAD_VAL = 429496
    TIMER_CLOCK = 5000
    CONFIG_SYS_HZ = 100
    MSECS = 1000
    USECS = 1000000
    ARP_TIMEOUT = 5000
    ARP_TIMEOUT_COUNT = 3
    Timeouts = {5000}
    Delays = {}
    Steps = {500}
    MaxRolls = 1
PROPERTY
    TimeoutNotEarly
CHECK_DEADLOCK FALSE

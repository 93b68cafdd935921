SPECIFICATION ReaderSpec
CONSTANTS
    DeviceList <- MCDevices
    EventTypes = {1, 2, 9}
    enable_empty_event_flag = 0
    max_length = 6144
    Promised <- MCPromised
    Overrun <- MCOverrun
    FileBytes = {3016, 3024}
    Sizes = {8192, 8193, 24577}
    EventBound = 4
    UseBound = 2
INVARIANTS TypeOK FitsInBuffer WriteoutInside  ReadsBack

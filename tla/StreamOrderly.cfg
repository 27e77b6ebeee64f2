SPECIFICATION FairSpec
CONSTANTS
    WindowSize = 2
    RelayBuf = 2
    InboxBuffer = 2
    AppBytes <- BytesBoth
    BackendKeepsFC = {TRUE}
    Faults = {}
 
PROPERTIES OrderlyDelivery
CHECK_DEADLOCK FALSE

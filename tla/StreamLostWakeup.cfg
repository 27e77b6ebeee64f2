SPECIFICATION FairSpec
CONSTANTS
    WindowSize = 1
    RelayBuf = 1
    InboxBuffer = 1
    AppBytes <- BytesDown
    BackendKeepsFC = {TRUE}
    Faults = {"stop"}
PROPERTIES AbortReleasesReader
CHECK_DEADLOCK FALSE

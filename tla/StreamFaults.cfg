SPECIFICATION Spec
CONSTANTS
    WindowSize = 2
    RelayBuf = 2
    InboxBuffer = 1
    AppBytes <- BytesMixed
    BackendKeepsFC = {TRUE, FALSE}
    Faults = {"reset", "stop", "acktimeout", "dialfail"}
INVARIANTS TypeOK WindowRespected BytesInOrder NoTruncation NoOrphanConn
 
CHECK_DEADLOCK FALSE

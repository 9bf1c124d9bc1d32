CONSTANTS
    p2 = p2  p3 = p3
    Procs = {p1, p2, p3}
    Creator = p1
    NoProc = NoProc
    Bytes = {1, 2}
    NoByte = 0
    RING_BUFFER_SIZE = 2
    Lens = {0, 3}
    MaxWrites = 2
    NetProcs = {p2, p3}
    Ports = {80}
    Peers = {r1, r2}
    None = None
    MaxFiles = 2
    MaxData = 2
    a = a  b = b  r1 = r1  r2 = r2
SPECIFICATION KeySpec
PROPERTIES CtrlCEndsForeground
CHECK_DEADLOCK FALSE

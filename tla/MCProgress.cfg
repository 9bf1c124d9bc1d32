CONSTANTS
    p1 = p1  p2 = p2  p3 = p3  NoProc = NoProc
    init = init  b1 = b1  b2 = b2  b3 = b3  NoPcb = NoPcb
    sh = sh  j1 = j1
    t1 = t1  t2 = t2  t3 = t3  NoTask = NoTask
SPECIFICATION Spec
PROPERTIES ReadersReturn InputReachesReader OrphansReaped SigintEnds StarvationFree
    CallsReturn
CHECK_DEADLOCK FALSE

CONSTANTS
    Tcbs = {t0, t1, t2, t3}  Main = t0  NoTcb = NoTcb  NoTid = NoTid  MaxTid = 3
    Pcbs = {init, b1, b2, b3}  INITPROC = init  NoPcb = NoPcb
    Readers = {b3}  MaxPid = 4
    sh = sh  j1 = j1  j2 = j2  None = None
SPECIFICATION MCSpec
INVARIANTS TidsExact TreeExact StopMarksAgree JobsKept
PROPERTIES EditorSound
CHECK_DEADLOCK FALSE

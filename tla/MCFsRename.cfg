CONSTANTS
    p1 = p1  p2 = p2
    Tasks = {t1, t2, t3}
    Nobody = Nobody
    Execers = {t1, t2}
    Readers = {t2, t3}
    Tokens = {0, 1}
    MaxAccesses = 3
    None = None
    Blocks = {1, 2, 3, 4}
    Written = {1, 2}
    Values = {0, 1}
    Blank = 0
    BLOCK_CACHE_SIZE = 3
    MaxHeld = 2
SPECIFICATION MCSpec
PROPERTIES RenameKeepsInode
CHECK_DEADLOCK FALSE

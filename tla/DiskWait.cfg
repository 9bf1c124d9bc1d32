CONSTANTS
    Tasks = {t1, t2}
    Nobody = Nobody
    Execers = {t2}
    Readers = {t1}
    Tokens = {0, 1}
    MaxAccesses = 3
SPECIFICATION LiveSpec
PROPERTIES CallsReturn
CHECK_DEADLOCK FALSE

SPECIFICATION Spec
CONSTANTS
    t1 = t1
    t2 = t2
    t3 = t3
    user1 = user1
    user2 = user2
    stream = stream
    key = key
    none = none
    Threads <- MCTwoThreads
    UserFiles <- MCUserFiles
    StreamFiles <- MCStreamFiles
    Keys <- MCKeys
    KeyOf <- MCKeyOf
    MaxObjects = 4
    FileHashFails = FALSE
    None <- none
PROPERTIES
    OperationsEnd
CHECK_DEADLOCK FALSE

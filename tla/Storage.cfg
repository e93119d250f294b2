SPECIFICATION MCSpec
CONSTANTS
    Part = {"pager", "log"}
    MaxPages = 4
    MaxCount = 4
    ClientWord = {2, 4}
    PageNum = {1}
    DataWord <- MCDataWord
    FrameData = 2
    MaxTx = 1
    MaxEntries = 2
    MaxFrames = 1
    MaxLength = 9
INVARIANTS
    FreelistSound
    OwnedReadable
    LogIntact
    
PROPERTIES
    OwnedUntouched
    AllocatorSpec

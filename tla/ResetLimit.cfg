SPECIFICATION MCSpec
CONSTANTS
    v1 = v1
    NoImage = NoImage
    Junk = Junk
    Images = {v1}
    FileChunks <- MCChunks
    Decryptable = {v1}
    Bootable = {v1}
    MaxSectors = 1
    Crashy = {}
    ResetMax = 10
    BlankByte = 255
    ErasedSectors <- MCErasedSectors
    MaxBoots = 300
INVARIANTS ResetLimitHolds NeverEarly

SPECIFICATION FairSpec
CONSTANTS
    v1 = v1
    v2 = v2
    v3 = v3
    alien = alien
    NoImage = NoImage
    Junk = Junk
    Images = {v1, v2, v3}
    FileChunks <- MCChunks
    Decryptable = {v1, v2}
    Bootable = {v1, v3}
    MaxSectors = 2
    Crashy = {v1}
    ResetMax = 3
    BlankByte = 4
    ErasedSectors <- MCErasedSectors
    AlienFiles = {alien}
    Ports = {"bsip"}
    MaxPowerLosses = 2
INVARIANTS TypeOK TransferInv AppIsIntact HangNeedsTornHeader
PROPERTIES BootKeepsImage LossNeedsBrokenRun StayHasReason SafeSpec BootTerminates CrashLoopCaught

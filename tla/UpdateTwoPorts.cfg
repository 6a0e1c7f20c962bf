SPECIFICATION Spec
CONSTANTS
    v1 = v1
    v2 = v2
    v3 = v3
    alien = alien
    NoImage = NoImage
    Junk = Junk
    Images = {v2}
    FileChunks <- MCChunks
    Decryptable = {v2}
    Bootable = {v2}
    MaxSectors = 2
    Crashy = {}
    ResetMax = 3
    BlankByte = 3
    ErasedSectors <- MCErasedSectors
    AlienFiles = {}
    Ports = {"bsip", "fgip"}
    MaxPowerLosses = 1
PROPERTIES LossNeedsBrokenRun SafeSpec

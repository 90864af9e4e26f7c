SPECIFICATION Spec
CONSTANTS
    Base = 16
    VersionEnd = 2
    MagicAt = 3
    DataLen = 8
    DelayTo = 155
    SigSize = 2
    Page = 16
    BromSizes <- MCBromSizes
    Block = 4
    Samples = 2
    Runs = 2
    Binaries <- MCBinaries
    PromImages <- MCPromImages
    Containers <- MCContainers
    Roms <- MCRoms
    Registers <- MCRegisters
    Harms = {1, 8, 15}
INVARIANT ValidImagesExtracted
CHECK_DEADLOCK FALSE

SPECIFICATION Spec
CONSTANTS
    Kinds = {"NoMbc", "Mbc1", "Mbc1Large", "Mbc1M", "Mbc2", "Mbc5", "Mbc5Rumble", "Huc1", "M161", "Mmm01", "Mbc3", "Mbc6", "Mbc7", "Huc3", "Camera"}
    LowBits = 2
    MidBits = 1
    BankBits = 4
    RamBankBits = 1
    Unit <- MCUnit
    Width <- MCWidth
    DayCount = 2
    TicksPerSecond = 2
    BlockBytes = 2
    Blocks = 2
    SectorBlocks = 1
    UnlockAA = 2
    Unlock55 = 1
    AddressBits = 2
    DataBits = 2
    MinutesPerDay = 2
    DayModulus = 2
    MinuteSeconds = 2
    TripletValues = 4
    Frames = {"one", "two"}
    Exposures = {1, 2}
    ClockTicks <- MCTicks
    RtcValues = {1, 3}
    RtcOps = 2
    BulkSeconds <- MCBulk
    McuValues = {0, 1, 2}
INVARIANTS BulkTimeIsTicks SaveRoundTrips
PROPERTIES GameStaysInItsWindow FlashChangesAreLegal EepromFollowsFrames EventKeepsItsDistance ExposureIsServed
CHECK_DEADLOCK FALSE

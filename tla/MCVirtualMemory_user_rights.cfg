\* Pages mapped WRITABLE only and WRITABLE | USER, as in spec scenario 4.
CONSTANTS
    NumTables <- TwoTables
    Slots <- TwoSlots
    NumFrames <- ThreeFrames
    MaxReserve <- TwoReserve
    InitMarksEveryFrame = TRUE
    ScanFromCurrent = TRUE
    VMThread = VMThread
    Other = Other
    NoAddr = NoAddr
    PAGE_PRESENT_BIT <- CodePresentBit
    PAGE_WRITABLE_BIT <- CodeWritableBit
    PAGE_USER_ACCESS_BIT <- CodeUserAccessBit
    PAGE_COPY_ON_WRITE_BIT <- CodeCopyOnWriteBit
    PAGE_FREE_BIT <- CodeFreeBit
    RightsChoices <- ScenarioRights
    CallerChecksUnmapped = TRUE
    TableAllocMayFail = FALSE
    EntryIterAddsAddress = FALSE
SPECIFICATION Spec
INVARIANT UserAccessAsAsked

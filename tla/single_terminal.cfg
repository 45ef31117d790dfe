CONSTANTS
    NPROC <- MC_NPROC_SINGLE
    NTERM <- MC_NTERM
    TERM_CAP <- MC_TERM_CAP
    Commands <- MC_Commands
    NUM_PROC_MIN <- MC_NUM_PROC_MIN
    Windows = {"checked", "loaded"}
    Interrupts = {}
    NONE = NONE
    BOOT = BOOT
    WILD = WILD
    NULL = NULL
SPECIFICATION Spec
INVARIANT TypeOK
INVARIANT NumProcMatchesList
INVARIANT ListedUniqueAndActive
INVARIANT ParentChain
INVARIANT AddressSpaceConsistent
INVARIANT OnlyTopsRun
INVARIANT NoWildJump
PROPERTY RefinesProcessStack

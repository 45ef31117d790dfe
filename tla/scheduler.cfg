CONSTANTS
    NPROC <- MC_NPROC_TINY
    NTERM <- MC_NTERM
    TERM_CAP <- MC_TERM_CAP
    Commands <- MC_Commands_Basic
    NUM_PROC_MIN <- MC_NUM_PROC_MIN
    Windows = {}
    Interrupts = {"pit"}
    NONE = NONE
    BOOT = BOOT
    WILD = WILD
    NULL = NULL
SPECIFICATION Spec
INVARIANT NumProcMatchesList
INVARIANT ListedUniqueAndActive
INVARIANT StartedTerminalsPopulated
CHECK_DEADLOCK FALSE

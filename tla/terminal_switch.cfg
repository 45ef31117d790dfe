CONSTANTS
    NPROC <- MC_NPROC_SMALL
    NTERM <- MC_NTERM
    TERM_CAP <- MC_TERM_CAP
    Commands <- MC_Commands_Basic
    NUM_PROC_MIN <- MC_NUM_PROC_MIN
    Windows = {"loaded"}
    Interrupts = {"kbd"}
    NONE = NONE
    BOOT = BOOT
    WILD = WILD
    NULL = NULL
SPECIFICATION Spec
INVARIANT ParentChain
INVARIANT StartedTerminalsPopulated
CHECK_DEADLOCK FALSE
